---------------------------- MODULE Spec2Model ----------------------------
(***************************************************************************)
(* Live analytics streaming and aggregation engine:                        *)
(*   - event normalizer            (server/services/liveAnalyticsNormalizer.ts) *)
(*   - Kafka consumer and buffers  (liveAnalyticsKafka.ts, unnamed/part_011)    *)
(*   - fallback chain and snapshot builder (liveAnalytics.ts, unnamed/part_000) *)
(*   - GET /api/dashboard/live     (server/routes/dashboardRoutes.ts)           *)
(*                                                                         *)
(* Numbers.  TLC integers are 32 bit, JavaScript numbers are IEEE doubles. *)
(* Timestamps are integers (milliseconds) with one reserved integer, NaN,  *)
(* standing for a non-finite number.  Metric values are fixed-point        *)
(* records [k, w, m] = w + m/1000 (m in 0..999), k = "nan" for NaN/Infinity.*)
(* The clock of the model starts shortly after the epoch, so ISO strings   *)
(* of the model are dates of January 1970.                                 *)
(***************************************************************************)
EXTENDS Integers, Sequences, FiniteSets, TLC

VARIABLES
    env,               \* process.env as read at module load (constant after Init)
    clock,             \* Date.now()
    promises,          \* the promises startConsumer() has returned, by state:
                       \* "pending" | "fulfilled" | "rejected"
    consumerPromise,   \* part_011:16  0 (null) or the index of a promise
    kafkaUnavailable,  \* part_011:17
    buffers,           \* part_011:19  the Map metric id -> StreamEvent[], as the
                       \* sequence of its entries [key, bucket] in insertion order
    cache,             \* part_000:29  module snapshot cache
    remoteStreamCache, \* part_000:34
    liveCache,         \* dashboardRoutes.ts:42  local TTLCache entry of 'snapshot'
    req,               \* in-flight GET /live requests: position and locals
    norm,              \* normalizer harness: last input and result
    proc,              \* the server process: scheduler timer, signal listeners
    memoryCache,       \* distributedCache.ts:7  per instance, the TTLCache entry of the key
    redis,             \* the Redis entry of the key, shared by the instances
    cacheOps,          \* per instance, the get and the set awaiting Redis
    cacheLog,          \* per instance, what the last get and set returned
    calc,              \* harness of the pure functions: last arguments and result
    partner            \* the partner API: the tables of the database and the requests in flight

\* the state outside the live analytics modules
elsewhere == <<proc, memoryCache, redis, cacheOps, cacheLog, calc, partner>>

vars == <<env, clock, promises, consumerPromise, kafkaUnavailable,
          buffers, cache, remoteStreamCache, liveCache, req, norm, elsewhere>>

-----------------------------------------------------------------------------
(* JavaScript numbers *)

\* A non-finite timestamp (NaN, Infinity): Number.isFinite is false.
NaN == -2000000000

IsFiniteTs(t) == t # NaN

\* a.timestamp - b.timestamp as used by the sort comparators: the sign, or NaN
TsCompare(a, b) ==
    IF a = NaN \/ b = NaN THEN NaN
    ELSE IF a < b THEN -1 ELSE IF a > b THEN 1 ELSE 0

\* a >= b on JavaScript numbers (false when either is NaN)
TsGe(a, b) == a # NaN /\ b # NaN /\ a >= b
TsGt(a, b) == a # NaN /\ b # NaN /\ a > b
TsSub(a, b) == IF a = NaN \/ b = NaN THEN NaN ELSE a - b

Fin(w, m) == [k |-> "fin", w |-> w, m |-> m]
NaNValue == [k |-> "nan", w |-> 0, m |-> 0]
Whole(w) == Fin(w, 0)
Zero == Whole(0)

IsFiniteNum(x) == x.k = "fin"

NumLe(a, b) == /\ a.k = "fin" /\ b.k = "fin"
               /\ (a.w < b.w \/ (a.w = b.w /\ a.m <= b.m))
NumGe(a, b) == NumLe(b, a)
NumGt(a, b) == a.k = "fin" /\ b.k = "fin" /\ ~NumLe(a, b)
NumLt(a, b) == NumGt(b, a)

NumSub(a, b) ==
    IF a.k # "fin" \/ b.k # "fin" THEN NaNValue
    ELSE IF a.m >= b.m THEN Fin(a.w - b.w, a.m - b.m)
    ELSE Fin(a.w - b.w - 1, a.m + 1000 - b.m)

NumAdd(a, b) ==
    IF a.k # "fin" \/ b.k # "fin" THEN NaNValue
    ELSE IF a.m + b.m < 1000 THEN Fin(a.w + b.w, a.m + b.m)
    ELSE Fin(a.w + b.w + 1, a.m + b.m - 1000)

\* Math.abs
NumAbs(a) == IF a.k # "fin" THEN NaNValue
             ELSE IF a.w >= 0 THEN a ELSE NumSub(Zero, a)

\* Math.round(x * 100) / 100 : to the nearest hundredth, halves towards +Infinity
Round2(a) ==
    IF a.k # "fin" THEN NaNValue
    ELSE LET h == (a.m + 5) \div 10
         IN  IF h = 100 THEN Fin(a.w + 1, 0) ELSE Fin(a.w, h * 10)

\* Array.prototype.map builds its result once: the sequence as a tuple of
\* values, not as a rule that is applied again at every access
ArrayOf(f) == f \o << >>

-----------------------------------------------------------------------------
(* Metric catalog: shared/data/liveAnalytics.ts *)

NoThreshold == [k |-> "undefined", w |-> 0, m |-> 0]

Thresholds(uw, uc, lw, lc) ==
    [upperWarning |-> uw, upperCritical |-> uc, lowerWarning |-> lw, lowerCritical |-> lc]

\* liveMetricDefinitions (phase in tenths; floor and directionBias optional)
liveMetricDefinitions ==
    << [id |-> "network_spend_velocity", unit |-> "USD/min", format |-> "currency",
        baseline |-> 42000000, amplitude |-> 3200000, volatility |-> 1800000,
        wavePeriod |-> 18, phase |-> 21, floor |-> NaN, directionBias |-> "none",
        thresholds |-> Thresholds(Whole(45000000), Whole(52000000), NoThreshold, NoThreshold)],
       [id |-> "fraud_block_rate", unit |-> "bps", format |-> "percentage",
        baseline |-> 82, amplitude |-> 6, volatility |-> 3,
        wavePeriod |-> 12, phase |-> 56, floor |-> NaN, directionBias |-> "up",
        thresholds |-> Thresholds(NoThreshold, NoThreshold, Whole(70), Whole(60))],
       [id |-> "authorization_latency", unit |-> "ms", format |-> "duration",
        baseline |-> 280, amplitude |-> 68, volatility |-> 36,
        wavePeriod |-> 16, phase |-> 31, floor |-> 120, directionBias |-> "down",
        thresholds |-> Thresholds(Whole(320), Whole(420), NoThreshold, NoThreshold)],
       [id |-> "signal_activation", unit |-> "signals/hr", format |-> "count",
        baseline |-> 148, amplitude |-> 22, volatility |-> 18,
        wavePeriod |-> 10, phase |-> 0, floor |-> NaN, directionBias |-> "none",
        thresholds |-> Thresholds(NoThreshold, NoThreshold, Whole(120), Whole(90))] >>

\* liveMetricCatalog: the definitions in the same order (id, unit, format, thresholds)
liveMetricCatalog ==
    ArrayOf([i \in DOMAIN liveMetricDefinitions |->
                [id |-> liveMetricDefinitions[i].id, unit |-> liveMetricDefinitions[i].unit,
                 format |-> liveMetricDefinitions[i].format,
                 thresholds |-> liveMetricDefinitions[i].thresholds]])

CatalogIds == { liveMetricCatalog[i].id : i \in DOMAIN liveMetricCatalog }

\* liveMetricMetadataById.has(id)
\* variant: every metric id is taken for a catalog id
IsCatalogIdAny(id) == TRUE

IsCatalogId(id) == id \in CatalogIds

-----------------------------------------------------------------------------
(* Raw JavaScript values as they reach the normalizer *)

\* `null` as returned by coerceTimestamp (distinct from every number)
Null == -2000000001

Undefined == [t |-> "undefined", n |-> 0, s |-> ""]
NumberJs(n) == [t |-> "number", n |-> n, s |-> ""]
StringJs(s) == [t |-> "string", n |-> 0, s |-> s]

\* the same for fields read as metric values (n is a fixed-point number)
UndefinedV == [t |-> "undefined", n |-> Zero, s |-> ""]
NumberV(v) == [t |-> "number", n |-> v, s |-> ""]
StringV(s) == [t |-> "string", n |-> Zero, s |-> s]

NullString == "<null>"
NullNumber == [k |-> "null", w |-> 0, m |-> 0]
NullEvent == [metricId |-> NullString, timestamp |-> Null, value |-> NullNumber]

StreamEvent(id, ts, v) == [metricId |-> id, timestamp |-> ts, value |-> v]

\* Date.parse on the strings the model feeds in (NaN when unparsable)
DateParse(s) ==
    CASE s = "1970-01-01T00:00:00.000Z" -> 0
      [] s = "1970-01-01T00:00:16.000Z" -> 16000
      [] s = "1970-01-01T00:00:31.000Z" -> 31000
      [] OTHER -> NaN

\* Number(string) on the strings the model feeds in
NumberOf(s) ==
    CASE s = "100" -> Whole(100)
      [] s = "120.005" -> Fin(120, 5)
      [] s = "0" -> Zero
      [] OTHER -> NaNValue          \* "abc" -> NaN, "Infinity" -> Infinity

-----------------------------------------------------------------------------
(* Event normalizer: server/services/liveAnalyticsNormalizer.ts *)

coerceString(value) ==
    IF value.t = "string" /\ value.s # "" THEN value.s ELSE NullString

coerceTimestamp(value) ==
    IF value.t = "number" /\ IsFiniteTs(value.n) THEN value.n
    ELSE IF value.t = "string" /\ value.s # ""
         THEN LET parsed == DateParse(value.s)
              IN  IF parsed = NaN THEN Null ELSE parsed
         ELSE Null

coerceNumber(value) ==
    IF value.t = "number" /\ IsFiniteNum(value.n) THEN value.n
    ELSE IF value.t = "string" /\ value.s # ""
         THEN LET parsed == NumberOf(value.s)
              IN  IF IsFiniteNum(parsed) THEN parsed ELSE NullNumber
         ELSE NullNumber

\* a ?? b
Coalesce(a, b, null) == IF a # null THEN a ELSE b

\* a variant that tests timestamp === null
IsNullTimestamp(ts) == ts = Null

\* !timestamp : null, 0 and NaN are falsy
Falsy(ts) == ts = Null \/ ts = 0 \/ ts = NaN

\* property read: a primitive (number, string, boolean) has none of the fields
Field(parsed, name) ==
    IF parsed.kind = "object" THEN parsed[name]
    ELSE IF name \in {"value", "metricValue", "valueNumeric"} THEN UndefinedV
    ELSE Undefined

normalizeRawEvent(parsed) ==
    IF parsed.kind = "null" THEN NullEvent           \* !parsed
    ELSE
    LET metricId == Coalesce(coerceString(Field(parsed, "metricId")),
                      Coalesce(coerceString(Field(parsed, "metric_id")),
                               coerceString(Field(parsed, "metricID")), NullString),
                      NullString)
        t1 == coerceTimestamp(Field(parsed, "timestamp"))
        t2 == IF Falsy(t1) THEN coerceTimestamp(Field(parsed, "timestampMs")) ELSE t1
        t3 == IF Falsy(t2) THEN coerceTimestamp(Field(parsed, "timestamp_ms")) ELSE t2
        timestamp == IF Falsy(t3) THEN coerceTimestamp(Field(parsed, "eventTime")) ELSE t3
        numericValueCandidate ==
            Coalesce(coerceNumber(Field(parsed, "value")),
              Coalesce(coerceNumber(Field(parsed, "metricValue")),
                       coerceNumber(Field(parsed, "valueNumeric")), NullNumber),
              NullNumber)
    IN  IF metricId = NullString THEN NullEvent
        ELSE IF ~IsCatalogId(metricId) THEN NullEvent
        ELSE IF Falsy(timestamp) THEN NullEvent
        ELSE IF numericValueCandidate = NullNumber \/ ~IsFiniteNum(numericValueCandidate)
             THEN NullEvent
        ELSE StreamEvent(metricId, timestamp, numericValueCandidate)

RawObject(id1, id2, id3, ts1, ts2, ts3, ts4, v1, v2, v3) ==
    [kind |-> "object",
     metricId |-> id1, metric_id |-> id2, metricID |-> id3,
     timestamp |-> ts1, timestampMs |-> ts2, timestamp_ms |-> ts3, eventTime |-> ts4,
     value |-> v1, metricValue |-> v2, valueNumeric |-> v3]

\* the canonical spelling {metricId, timestamp, value}
RawPlain(id, ts, v) ==
    RawObject(id, Undefined, Undefined, ts, Undefined, Undefined, Undefined,
              v, UndefinedV, UndefinedV)

NoFields == RawPlain(Undefined, Undefined, UndefinedV)
RawNull == [NoFields EXCEPT !.kind = "null"]          \* null, undefined, 0, ''
RawPrimitive == [NoFields EXCEPT !.kind = "primitive"]  \* 5, 'text', true

-----------------------------------------------------------------------------
(* Kafka buffers: server/services/liveAnalyticsKafka.ts (unnamed/part_011) *)

Unset == "<unset>"

\* Number.parseInt(text, 10) on the configured strings (NaN when not numeric)
ParseInt(s) ==
    CASE s = "180" -> 180
      [] s = "10" -> 10
      [] s = "26" -> 26
      [] s = "2" -> 2
      [] s = "60" -> 60
      [] s = "-5" -> -5
      [] OTHER -> NaN              \* "abc", ""

\* Math.max(a, b) : NaN when either is NaN
MathMax(a, b) == IF a = NaN \/ b = NaN THEN NaN ELSE IF a >= b THEN a ELSE b

MIN_EVENTS_PER_METRIC == 25

\* Math.max(25, Number.parseInt(process.env.LIVE_ANALYTICS_KAFKA_MAX_EVENTS ?? '180', 10))
maxEventsPerMetric ==
    MathMax(MIN_EVENTS_PER_METRIC,
            ParseInt(IF env.maxEvents = Unset THEN "180" ELSE env.maxEvents))

\* sign of a - b on fixed-point numbers, NaN when either is NaN
NumCompare(a, b) ==
    IF a.k # "fin" \/ b.k # "fin" THEN NaN
    ELSE IF NumLt(a, b) THEN -1 ELSE IF NumGt(a, b) THEN 1 ELSE 0

\* The comparators handed to Array.prototype.sort, as sort sees them (a NaN
\* result counts as +0):
\*   "timestamp": (a, b) => a.timestamp - b.timestamp
\*   "severity" : (a, b) => severityScore(b) - severityScore(a)   (on [score, item])
\*   "gap"      : (a, b) => a.gap - b.gap
SortCompare(by, a, b) ==
    CASE by = "timestamp" -> IF TsCompare(a.timestamp, b.timestamp) = NaN THEN 0
                             ELSE TsCompare(a.timestamp, b.timestamp)
      [] by = "severity" -> IF NumCompare(b.score, a.score) = NaN THEN 0
                            ELSE NumCompare(b.score, a.score)
      [] by = "gap" -> IF NumCompare(a.gap, b.gap) = NaN THEN 0
                       ELSE NumCompare(a.gap, b.gap)

Reverse(seq) == ArrayOf([i \in 1..Len(seq) |-> seq[Len(seq) + 1 - i]])

RECURSIVE RunEnd(_, _, _, _)
\* length of the initial run of arr (V8 CountAndMakeRun), idx the next index
RunEnd(by, arr, descending, idx) ==
    IF idx > Len(arr) THEN Len(arr)
    ELSE IF (descending /\ SortCompare(by, arr[idx], arr[idx - 1]) >= 0)
            \/ (~descending /\ SortCompare(by, arr[idx], arr[idx - 1]) < 0)
    THEN idx - 1
    ELSE RunEnd(by, arr, descending, idx + 1)

RECURSIVE BinarySearch(_, _, _, _, _)
\* number of elements of arr[1..right] that stay in front of pivot
BinarySearch(by, arr, pivot, left, right) ==
    IF left >= right THEN left
    ELSE IF SortCompare(by, pivot, arr[left + ((right - left) \div 2) + 1]) < 0
    THEN BinarySearch(by, arr, pivot, left, left + ((right - left) \div 2))
    ELSE BinarySearch(by, arr, pivot, left + ((right - left) \div 2) + 1, right)

\* arr with arr[start] moved to position left + 1
InsertAt(arr, start, left) ==
    SubSeq(arr, 1, left) \o << arr[start] >> \o SubSeq(arr, left + 1, start - 1)
        \o SubSeq(arr, start + 1, Len(arr))

RECURSIVE BinaryInsertionSort(_, _, _)
\* arr[1..start-1] is sorted; insert arr[start], arr[start+1], ...
BinaryInsertionSort(by, arr, start) ==
    IF start > Len(arr) THEN arr
    ELSE BinaryInsertionSort(by, InsertAt(arr, start, BinarySearch(by, arr, arr[start], 0, start - 1)),
                             start + 1)

\* a descending initial run is reversed in place
MakeRun(arr, descending, run) ==
    IF descending THEN Reverse(SubSeq(arr, 1, run)) \o SubSeq(arr, run + 1, Len(arr)) ELSE arr

SortRun(by, arr, descending, run) ==
    BinaryInsertionSort(by, MakeRun(arr, descending, run), run + 1)

SortFrom(by, arr, descending) == SortRun(by, arr, descending, RunEnd(by, arr, descending, 3))

\* Array.prototype.sort(comparator): stable; computed as the engine does for
\* short arrays (initial run, then binary insertion), which fixes the result
\* also for a comparator that is inconsistent because of NaN
ArraySort(by, arr) ==
    IF Len(arr) < 2 THEN arr
    ELSE SortFrom(by, arr, SortCompare(by, arr[2], arr[1]) < 0)

\* bucket.sort((a, b) => a.timestamp - b.timestamp)
SortByTimestamp(arr) == ArraySort("timestamp", arr)

\* buffers.get(key) ?? []
MapGet(map, key) ==
    IF \E i \in DOMAIN map : map[i].key = key
    THEN map[CHOOSE i \in DOMAIN map : map[i].key = key].bucket
    ELSE << >>

\* buffers.set(key, bucket): an existing key keeps its position
MapSet(map, key, bucket) ==
    IF \E i \in DOMAIN map : map[i].key = key
    THEN ArrayOf([i \in DOMAIN map |-> IF map[i].key = key
                                       THEN [key |-> key, bucket |-> bucket] ELSE map[i]])
    ELSE Append(map, [key |-> key, bucket |-> bucket])

\* bucket.splice(0, bucket.length - max) when bucket.length > max (false for NaN)
TrimToMax(bucket, max) ==
    IF max # NaN /\ Len(bucket) > max
    THEN SubSeq(bucket, Len(bucket) - max + 1, Len(bucket))
    ELSE bucket

\* variant: the new event replaces the bucket
ingestEventReplacing(map, event, max) == MapSet(map, event.metricId, << event >>)

ingestEvent(map, event, max) ==
    MapSet(map, event.metricId,
           TrimToMax(SortByTimestamp(Append(MapGet(map, event.metricId), event)), max))

IngestUnlessNull(map, normalized, max) ==
    IF normalized = NullEvent THEN map ELSE ingestEvent(map, normalized, max)

addRawEvent(map, raw, max) == IngestUnlessNull(map, normalizeRawEvent(raw), max)

RECURSIVE flattenFrom(_, _)
flattenFrom(map, i) ==
    IF i > Len(map) THEN << >> ELSE map[i].bucket \o flattenFrom(map, i + 1)

flattenBuffers(map) == flattenFrom(map, 1)

isStreamEvent(event) ==
    /\ event.kind = "object"
    /\ event.metricId.t = "string"
    /\ event.timestamp.t = "number"

\* the value field of an object taken as a StreamEvent unchecked: stored as
\* it is (the model passes numbers; other values are shown as the number they
\* convert to)
ToNumber(value) ==
    CASE value.t = "number" -> value.n
      [] value.t = "string" -> IF value.s = "" THEN Zero ELSE NumberOf(value.s)
      [] OTHER -> NaNValue

IngestCandidate(map, normalizedCandidate, max) ==
    IF normalizedCandidate # NullEvent /\ IsCatalogId(normalizedCandidate.metricId)
    THEN ingestEvent(map, normalizedCandidate, max)
    ELSE map

\* the effect of ingestKafkaEventForTesting(event) on the buffers
ingestForTesting(map, event, max) ==
    IngestCandidate(map,
                    IF isStreamEvent(event)
                    THEN StreamEvent(event.metricId.s, event.timestamp.n, ToNumber(event.value))
                    ELSE normalizeRawEvent(event),
                    max)

\* isKafkaLiveAnalyticsEnabled()
isKafkaLiveAnalyticsEnabled == ~kafkaUnavailable /\ env.brokers

-----------------------------------------------------------------------------
(* Shared derivations: server/services/liveAnalyticsShared.ts *)

EPSILON == Fin(0, 0)      \* 0.0001 lies below the resolution 0.001 of the model

resolveDirection(delta) ==
    IF NumLe(NumAbs(delta), EPSILON) THEN "steady"
    ELSE IF NumGt(delta, Zero) THEN "up" ELSE "down"

Defined(threshold) == threshold.k # "undefined"

roundMagnitude(value) == Round2(NumAbs(value))

Anomaly(status, breached, thresholdValue, message, magnitude) ==
    [status |-> status, breachedThreshold |-> breached, thresholdValue |-> thresholdValue,
     message |-> message, magnitude |-> magnitude]

\* candidates.sort((a, b) => a.gap - b.gap)[0]
ClosestOf(diffs) ==
    IF Len(diffs) = 0 THEN [value |-> NoThreshold, gap |-> Zero, found |-> FALSE]
    ELSE [value |-> ArraySort("gap", diffs)[1].value, gap |-> ArraySort("gap", diffs)[1].gap,
          found |-> TRUE]

GapsOf(candidates, value) ==
    ArrayOf([i \in DOMAIN candidates |->
                [value |-> candidates[i], gap |-> NumAbs(NumSub(candidates[i], value))]])

determineClosestThreshold(value, thresholds) ==
    ClosestOf(GapsOf(SelectSeq(<< thresholds.upperWarning, thresholds.upperCritical,
                                  thresholds.lowerWarning, thresholds.lowerCritical >>, Defined),
                     value))

HealthyAnomaly(closest) ==
    Anomaly("ok", "undefined", closest.value, "Within healthy band",
            IF closest.found THEN closest.gap ELSE Zero)

\* a metric without a thresholds object
NoGuardrails == [absent |-> TRUE]

\* variant: the warning ceiling is tested before the critical ceiling
evaluateAnomalyWarningFirst(value, thresholds) ==
    IF thresholds = NoGuardrails
    THEN Anomaly("ok", "undefined", NoThreshold, "No guardrails configured", Zero)
    ELSE IF Defined(thresholds.upperWarning) /\ NumGe(value, thresholds.upperWarning)
    THEN Anomaly("warning", "upper", thresholds.upperWarning, "Tracking above watch band",
                 roundMagnitude(NumSub(value, thresholds.upperWarning)))
    ELSE IF Defined(thresholds.upperCritical) /\ NumGe(value, thresholds.upperCritical)
    THEN Anomaly("critical", "upper", thresholds.upperCritical, "Above critical ceiling",
                 roundMagnitude(NumSub(value, thresholds.upperCritical)))
    ELSE HealthyAnomaly(determineClosestThreshold(value, thresholds))

evaluateAnomaly(value, thresholds) ==
    IF thresholds = NoGuardrails
    THEN Anomaly("ok", "undefined", NoThreshold, "No guardrails configured", Zero)
    ELSE IF Defined(thresholds.upperCritical) /\ NumGe(value, thresholds.upperCritical)
    THEN Anomaly("critical", "upper", thresholds.upperCritical, "Above critical ceiling",
                 roundMagnitude(NumSub(value, thresholds.upperCritical)))
    ELSE IF Defined(thresholds.lowerCritical) /\ NumLe(value, thresholds.lowerCritical)
    THEN Anomaly("critical", "lower", thresholds.lowerCritical, "Below critical floor",
                 roundMagnitude(NumSub(thresholds.lowerCritical, value)))
    ELSE IF Defined(thresholds.upperWarning) /\ NumGe(value, thresholds.upperWarning)
    THEN Anomaly("warning", "upper", thresholds.upperWarning, "Tracking above watch band",
                 roundMagnitude(NumSub(value, thresholds.upperWarning)))
    ELSE IF Defined(thresholds.lowerWarning) /\ NumLe(value, thresholds.lowerWarning)
    THEN Anomaly("warning", "lower", thresholds.lowerWarning, "Tracking below watch band",
                 roundMagnitude(NumSub(thresholds.lowerWarning, value)))
    ELSE HealthyAnomaly(determineClosestThreshold(value, thresholds))

\* variant: the anomaly status adds nothing to the score
severityScoreWithoutStatus(metric) ==
    NumAdd(metric.anomaly.magnitude, NumAbs(metric.delta))

severityScore(metric) ==
    LET statusScore == IF metric.anomaly.status = "critical" THEN Whole(1000)
                       ELSE IF metric.anomaly.status = "warning" THEN Whole(500) ELSE Zero
    IN  NumAdd(NumAdd(statusScore, metric.anomaly.magnitude), NumAbs(metric.delta))

\* the phrase as its parts: what is said, about which metric, with which number
buildPhrase(metric) ==
    IF metric.anomaly.status # "ok"
    THEN [verb |-> IF metric.anomaly.status = "critical" THEN "triggered" ELSE "nudged",
          boundary |-> IF metric.anomaly.breachedThreshold = "lower" THEN "floor" ELSE "ceiling",
          number |-> metric.anomaly.thresholdValue, focus |-> metric.id]
    ELSE [verb |-> IF metric.direction = "down" THEN "softened"
                   ELSE IF metric.direction = "steady" THEN "held steady" ELSE "climbed",
          boundary |-> "none",
          number |-> NumAbs(metric.delta), focus |-> metric.id]

SteadySentence == << "Live telemetry steady across monitored signals." >>

\* [primary, ...others] of the metrics sorted by descending severity; others
\* are the entries whose id differs from primary's
NarrativeOf(bySeverity) ==
    IF Len(bySeverity) = 0 THEN SteadySentence
    ELSE IF \A j \in DOMAIN bySeverity : bySeverity[j].item.id = bySeverity[1].item.id
    THEN << "Live telemetry", buildPhrase(bySeverity[1].item) >>
    ELSE << "Live telemetry", buildPhrase(bySeverity[1].item), "while",
            buildPhrase(bySeverity[CHOOSE j \in DOMAIN bySeverity :
                                     /\ bySeverity[j].item.id # bySeverity[1].item.id
                                     /\ \A k \in 1..(j - 1) :
                                            bySeverity[k].item.id = bySeverity[1].item.id].item) >>

\* the narrative as the sequence of its parts
composeNarrative(metrics) ==
    NarrativeOf(ArraySort("severity",
                          ArrayOf([i \in DOMAIN metrics |->
                                      [score |-> severityScore(metrics[i]), item |-> metrics[i]]])))

-----------------------------------------------------------------------------
(* Dates *)

\* new Date(t).toISOString() throws a RangeError unless |t| <= 8.64e15 ms
\* (100,000,000 days).  32-bit integers cannot hold that limit: the model puts
\* it at 10 days, and a finite timestamp above it stands for a finite double
\* above the real limit.
MaxDateMs == 864000000

DAY_MS == 86400000

ValidDate(t) == t # NaN /\ t >= -MaxDateMs /\ t <= MaxDateMs

\* the ISO-8601 string as its fields (days since the epoch for the date part)
toISOString(t) ==
    LET r == t % DAY_MS
    IN  [day |-> t \div DAY_MS, h |-> r \div 3600000, mi |-> (r % 3600000) \div 60000,
         s |-> (r % 60000) \div 1000, ms |-> r % 1000]

-----------------------------------------------------------------------------
(* Synthetic fallback generator: server/services/liveAnalyticsSynthetic.ts
   (server/services/liveAnalytics.ts lines 279-397) *)

TREND_POINTS == 10
SYNTHETIC_TICK_MS == 15000

\* Math.sin(x / period) in percent.  TLC has no sine: the wave is replaced by
\* the triangle wave of period 6 * period (2 pi is about 6.28).
Wave(x, period) ==
    LET q == 3 * period
        u == (2 * x) % (4 * q)
    IN  IF u <= q THEN (100 * u) \div q
        ELSE IF u <= 3 * q THEN (100 * (2 * q - u)) \div q
        ELSE (100 * (u - 4 * q)) \div q

\* (pseudoRandom(tick) - 0.5) * 2 in percent; pseudoRandom is the fractional
\* part of sin(tick) * 10000, replaced by a fixed scrambling of the tick
pseudoRandom(seed) == ((seed * 7919 + 13) % 201) - 100

Abs(n) == IF n >= 0 THEN n ELSE -n

\* n / 100 as a fixed-point number
Percent(n) == Fin(n \div 100, (n % 100) * 10)

computeValue(definition, tick) ==
    LET sinusoid == definition.amplitude * Wave(tick + definition.phase \div 10, definition.wavePeriod)
        random == pseudoRandom(tick) * definition.volatility
        modifier == ((Wave(tick + 11, definition.wavePeriod * 4) * definition.amplitude) \div 25) * 3
        directionalBias == IF definition.directionBias = "none" THEN 0
                           ELSE IF definition.directionBias = "up" THEN Abs(modifier)
                           ELSE -Abs(modifier)
        total == NumAdd(Whole(definition.baseline), Percent(sinusoid + random + directionalBias))
    IN  IF definition.floor # NaN /\ NumLt(total, Whole(definition.floor))
        THEN Whole(definition.floor) ELSE total

\* buildTrend of the synthetic generator.  The loop runs index from
\* TREND_POINTS - 1 down to 0 and pushes the point that lies
\* (TREND_POINTS - 1 - index) ticks before issuedAt: the j-th point pushed
\* lies j - 1 ticks back, so the point at issuedAt comes first.
syntheticTrend(definition, tick, issuedAt) ==
    ArrayOf([j \in 1..TREND_POINTS |->
                [timestamp |-> toISOString(issuedAt - (j - 1) * SYNTHETIC_TICK_MS),
                 value |-> Round2(computeValue(definition, tick - (j - 1)))]])

LiveMetric(metadata, value, delta, trend, anomaly, origin) ==
    [id |-> metadata.id, unit |-> metadata.unit, format |-> metadata.format,
     value |-> value, delta |-> delta, direction |-> resolveDirection(delta),
     trend |-> trend, thresholds |-> metadata.thresholds, anomaly |-> anomaly,
     origin |-> origin]     \* origin: which code path produced the entry (ghost)

\* buildStaticMetric from the trend: latest and previous are its last two points
syntheticEntry(i, latest, previous, trend) ==
    LiveMetric(liveMetricCatalog[i], Round2(latest), Round2(NumSub(latest, previous)), trend,
               evaluateAnomaly(latest, liveMetricCatalog[i].thresholds), "synthetic")

syntheticFromTrend(i, trend) ==
    syntheticEntry(i, trend[Len(trend)].value, trend[Len(trend) - 1].value, trend)

syntheticMetric(i, issuedAt) ==
    syntheticFromTrend(i, syntheticTrend(liveMetricDefinitions[i],
                                         issuedAt \div SYNTHETIC_TICK_MS, issuedAt))

Snapshot(generatedAt, windowSeconds, metrics) ==
    [generatedAt |-> generatedAt, windowSeconds |-> windowSeconds, metrics |-> metrics,
     narrative |-> composeNarrative(metrics)]

\* generateSyntheticSnapshot(windowSeconds) with Date.now() = issuedAt
generateSyntheticSnapshot(windowSeconds, issuedAt) ==
    Snapshot(toISOString(issuedAt), windowSeconds,
             ArrayOf([i \in DOMAIN liveMetricCatalog |-> syntheticMetric(i, issuedAt)]))

-----------------------------------------------------------------------------
(* Snapshot builder: server/services/liveAnalytics.ts (unnamed/part_000) *)

DEFAULT_WINDOW_SECONDS == 120
CACHE_TTL_MS == 3000

\* Number.parseInt(process.env.LIVE_ANALYTICS_WINDOW_SECONDS ?? '', 10) || 120
configuredWindowSeconds ==
    LET parsed == ParseInt(IF env.windowSeconds = Unset THEN "" ELSE env.windowSeconds)
    IN  IF parsed = NaN \/ parsed = 0 THEN DEFAULT_WINDOW_SECONDS ELSE parsed

\* the bucket of metricId in `grouped`: its events in arrival order
GroupOf(events, metricId) == SelectSeq(events, LAMBDA e : e.metricId = metricId)

\* array.slice(-n)
LastN(arr, n) == IF Len(arr) <= n THEN arr ELSE SubSeq(arr, Len(arr) - n + 1, Len(arr))

\* lines 173-175: the window ends at the latest event of the sorted group
ClipToWindow(sorted, windowSeconds) ==
    LastN(SelectSeq(sorted, LAMBDA e :
              TsGe(e.timestamp, TsSub(sorted[Len(sorted)].timestamp, windowSeconds * 1000))),
          TREND_POINTS)

\* the events of one metric that make its trend (lines 171-175)
TrendEvents(group, windowSeconds) == ClipToWindow(SortByTimestamp(group), windowSeconds)

\* lines 181-182: trendEvents.at(-1)?.value ?? sorted.at(-1)?.value ?? 0
LatestValue(sorted, trendEvents) ==
    IF Len(trendEvents) >= 1 THEN trendEvents[Len(trendEvents)].value
    ELSE sorted[Len(sorted)].value

\* variant: the previous value is taken from the first trend event
PreviousValueFirst(trendEvents, latestValue) ==
    IF Len(trendEvents) >= 2 THEN trendEvents[1].value ELSE latestValue

\* line 183: trendEvents.at(-2)?.value ?? latestValue
PreviousValue(trendEvents, latestValue) ==
    IF Len(trendEvents) >= 2 THEN trendEvents[Len(trendEvents) - 1].value ELSE latestValue

\* lines 188-191; the timestamps are valid dates
TrendPoints(trendEvents) ==
    ArrayOf([j \in 1..Len(trendEvents) |->
                [timestamp |-> toISOString(trendEvents[j].timestamp),
                 value |-> Round2(trendEvents[j].value)]])

\* lines 184-207: the entry from the latest and the previous value
LiveEntry(i, latestValue, previousValue, trendEvents) ==
    LiveMetric(liveMetricCatalog[i], Round2(latestValue),
               Round2(NumSub(latestValue, previousValue)), TrendPoints(trendEvents),
               evaluateAnomaly(latestValue, liveMetricCatalog[i].thresholds), "live")

LiveEntryOf(i, latestValue, trendEvents) ==
    LiveEntry(i, latestValue, PreviousValue(trendEvents, latestValue), trendEvents)

LiveEntryFrom(i, sorted, trendEvents) ==
    LiveEntryOf(i, LatestValue(sorted, trendEvents), trendEvents)

LiveEntrySorted(i, sorted, windowSeconds) ==
    LiveEntryFrom(i, sorted, ClipToWindow(sorted, windowSeconds))

\* the entry of a metric that has events (lines 171-207)
liveMetric(i, group, windowSeconds) ==
    LiveEntrySorted(i, SortByTimestamp(group), windowSeconds)

\* variant: no metric is treated as live
LiveIndexesNone(events) == { }

\* indexes of the catalog metrics that have at least one event
LiveIndexes(events) ==
    { i \in DOMAIN liveMetricCatalog : \E j \in DOMAIN events : events[j].metricId = liveMetricCatalog[i].id }

Max(S) == CHOOSE x \in S : \A y \in S : y <= x
Min(S) == CHOOSE x \in S : \A y \in S : x <= y

LastOf(sorted) == sorted[Len(sorted)]

\* globalLatest: 0, raised by every latestTimestamp that is greater (lines 162, 177-179)
GlobalLatest(events) ==
    Max({0} \cup { t \in { LastOf(SortByTimestamp(GroupOf(events, liveMetricCatalog[i].id))).timestamp :
                             i \in LiveIndexes(events) } : t # NaN })

FirstOrNone(trendEvents) ==
    IF Len(trendEvents) > 0 THEN { trendEvents[1].timestamp } ELSE { }

\* globalEarliest: now, lowered by the first trend timestamp of every live
\* metric (lines 163, 192-195); a NaN timestamp is never in a trend
GlobalEarliest(events, now, windowSeconds) ==
    Min({now} \cup UNION { FirstOrNone(TrendEvents(GroupOf(events, liveMetricCatalog[i].id),
                                                    windowSeconds)) : i \in LiveIndexes(events) })

\* Math.max(1, Math.round(ms / 1000))
DerivedWindow(ms) ==
    IF (ms + 500) \div 1000 >= 1 THEN (ms + 500) \div 1000 ELSE 1

AnyInvalidDate(trendEvents) ==
    \E j \in DOMAIN trendEvents : ~ValidDate(trendEvents[j].timestamp)

\* new Date(event.timestamp).toISOString() throws for one of the trend events
TrendThrows(events, windowSeconds) ==
    \E i \in LiveIndexes(events) :
        AnyInvalidDate(TrendEvents(GroupOf(events, liveMetricCatalog[i].id), windowSeconds))

Threw == [threw |-> TRUE]
Returned(snapshot) == [threw |-> FALSE, snapshot |-> snapshot]

\* lines 209-219: generatedAt and windowSeconds come from the live events when
\* there is a positive latest timestamp, else from the fallback
SnapshotAt(globalLatest, globalEarliest, fallback, metrics) ==
    IF globalLatest > 0
    THEN Snapshot(toISOString(globalLatest), DerivedWindow(globalLatest - globalEarliest), metrics)
    ELSE Snapshot(fallback.generatedAt, fallback.windowSeconds, metrics)

\* lines 165-207: per catalog metric the live entry, or the fallback's
MetricsOf(events, windowSeconds, fallback) ==
    ArrayOf([i \in DOMAIN liveMetricCatalog |->
                IF i \in LiveIndexes(events)
                THEN liveMetric(i, GroupOf(events, liveMetricCatalog[i].id), windowSeconds)
                ELSE fallback.metrics[i]])

buildWith(events, now, windowSeconds, fallback) ==
    IF Len(events) = 0 THEN Returned(fallback)
    ELSE IF TrendThrows(events, windowSeconds) THEN Threw
    ELSE Returned(SnapshotAt(GlobalLatest(events), GlobalEarliest(events, now, windowSeconds),
                             fallback, MetricsOf(events, windowSeconds, fallback)))

\* buildSnapshot(events, now), with Date.now() = issuedAt when it is called
buildSnapshot(events, now, issuedAt) ==
    buildWith(events, now, configuredWindowSeconds,
              generateSyntheticSnapshot(configuredWindowSeconds, issuedAt))

\* liveAnalyticsSnapshotSchema.parse(snapshot): z.number() rejects NaN
NumberOk(x) == x.k = "fin"

SchemaAccepts(snapshot) ==
    \A i \in DOMAIN snapshot.metrics :
        LET metric == snapshot.metrics[i]
        IN  /\ NumberOk(metric.value)
            /\ NumberOk(metric.delta)
            /\ \A j \in DOMAIN metric.trend : NumberOk(metric.trend[j].value)
            /\ NumberOk(metric.anomaly.magnitude)

-----------------------------------------------------------------------------
(* Bounds and inputs of the model *)

MaxBuffered == 2       \* events held in all Kafka buffers together
MaxClock == 36000      \* the clock stops here
StartClock == 30000    \* Date.now() when the process starts
TickMs == 3000         \* granularity of the clock

Reqs == { "r1" }

M1 == "fraud_block_rate"
M2 == "authorization_latency"
HugeTs == MaxDateMs + 1     \* finite, but no valid Date

EventA == RawPlain(StringJs(M1), NumberJs(16000), NumberV(Whole(100)))
EventB == RawPlain(StringJs(M1), NumberJs(31000), NumberV(Whole(120)))
EventC == RawPlain(StringJs(M2), NumberJs(16000), NumberV(Fin(300, 5)))
EventHuge == RawPlain(StringJs(M1), NumberJs(HugeTs), NumberV(Whole(100)))
EventUnknown == RawPlain(StringJs("unknown_metric"), NumberJs(16000), NumberV(Whole(1)))
EventNaNTimestamp == RawPlain(StringJs(M1), NumberJs(NaN), NumberV(Whole(100)))
EventNaNValue == RawPlain(StringJs(M1), NumberJs(16000), NumberV(NaNValue))

\* objects a Kafka message can carry
KafkaInputs == { EventA, EventHuge, EventUnknown }

\* arguments of ingestKafkaEventForTesting (objects; null is not passed)
TestingInputs == { EventNaNValue }

\* what a remote body or the local file parses to: one candidate per line or item
BodyInputs == { << EventUnknown >>, << EventC >>, << EventHuge >> }

-----------------------------------------------------------------------------
(* State *)

NoSnapshot == [none |-> TRUE]
NoEntry == [none |-> TRUE]

\* a request: where it is suspended and its locals.  source, consulted and
\* builtAt are history: which adapter gave the events, which adapters were
\* asked with how many events each gave, and Date.now() during buildSnapshot
IdleReq == [pc |-> "idle", now |-> 0, loadNow |-> 0, awaiting |-> 0, events |-> << >>,
            source |-> "none", consulted |-> << >>, builtAt |-> 0,
            status |-> 0, body |-> NoSnapshot]

EnvDefaults == [test |-> FALSE, brokers |-> FALSE, url |-> FALSE, maxEvents |-> Unset,
                windowSeconds |-> Unset, pollSeconds |-> Unset, redis |-> FALSE,
                idp |-> Unset, idpRequireToken |-> Unset, shadowQueue |-> Unset]

\* server instances, each with its own DistributedCache('live-analytics', 5000)
Instances == { "a", "b" }
NoOp == [pc |-> "idle"]
NoAnswer == [kind |-> "none"]
NoSet == [none |-> TRUE]

\* server entry point: bootstrap() has run startMetricsSchedulers(), which sets
\* the interval timer unless NODE_ENV is 'test'; both signals have a once-listener
Signals == { "SIGTERM", "SIGINT" }

Bootstrapped(test) ==
    [alive |-> TRUE, timer |-> ~test, listeners |-> Signals, pending |-> {}, handled |-> {}]

\* the partner API (unnamed/part_005): the rows of the database, and for each
\* caller the request in flight.  Display names and notes are left out; a
\* reviewer is known by id and role.
Callers == { "c1", "c2" }
MaxAuditRows == 2      \* requests stop arriving when the audit table has this many rows

PatchStatus == "PATCH /signals/:id/status"
GetAssignments == "GET /signals/:id/assignments"
PostAssignments == "POST /signals/:id/assignments"
GetShadowQueue == "GET /shadow-queue"
PostDecision == "POST /shadow-queue/:id/decision"
GetAudits == "GET /signals/:id/audits"

\* the routes behind requireRole('colleague')
ModerationEndpoints ==
    { PatchStatus, GetAssignments, PostAssignments, GetShadowQueue, PostDecision }

NoUser == [id |-> "", role |-> "<undefined>"]
NoIdentity == [id |-> "", role |-> "<null>"]
NoHeaders == [role |-> Unset, id |-> Unset, token |-> Unset]
NoRow == [status |-> "<no row>", decision_at |-> 0, decision_by_id |-> ""]
PendingRow == [status |-> "pending", decision_at |-> Null, decision_by_id |-> NullString]

IdleCall == [pc |-> "idle", endpoint |-> "", headers |-> NoHeaders, target |-> "", body |-> "",
             user |-> NoUser, handled |-> FALSE, status |-> 0]

\* one submitted signal "s1" with one pending shadow-queue item "q1"
PartnerStart ==
    [signal |-> [status |-> "pending", assigned_reviewer_id |-> NullString],
     assignments |-> << >>,
     audits |-> << >>,
     queue |-> [q \in { "q1" } |-> PendingRow],
     calls |-> [c \in Callers |-> IdleCall]]

InitFor(environments, requests) ==
    /\ env \in environments
    /\ clock = StartClock
    /\ promises = << >>
    /\ consumerPromise = 0
    /\ kafkaUnavailable = FALSE
    /\ buffers = << >>
    /\ cache = [loadedAt |-> 0, snapshot |-> NoSnapshot]
    /\ remoteStreamCache = [loadedAt |-> 0, events |-> << >>]
    /\ liveCache = NoEntry
    /\ req = [r \in requests |-> IdleReq]
    /\ norm = [input |-> RawNull, output |-> NullEvent]
    /\ proc = Bootstrapped(env.test)
    /\ memoryCache = [i \in Instances |-> NoEntry]
    /\ redis = NoEntry
    /\ cacheOps = [i \in Instances |-> [get |-> NoOp, set |-> NoOp]]
    /\ cacheLog = [i \in Instances |-> [got |-> NoAnswer, set |-> "none", lastSet |-> NoSet]]
    /\ calc = [op |-> "none"]
    /\ partner = PartnerStart

InitWith(environments) == InitFor(environments, Reqs)

\* the test process with Kafka; production with Kafka and a remote stream,
\* with a remote stream only, and with the local file only
Environments ==
    { [EnvDefaults EXCEPT !.test = TRUE, !.brokers = TRUE],
      [EnvDefaults EXCEPT !.brokers = TRUE, !.url = TRUE],
      [EnvDefaults EXCEPT !.url = TRUE],
      EnvDefaults }

Init == InitWith(Environments)

Buffered == Len(flattenBuffers(buffers))

-----------------------------------------------------------------------------
(* Kafka consumer: message handling and the test entry points (part_011) *)

JsonNull == [type |-> "null"]
JsonObject(raw) == [type |-> "object", raw |-> raw]
JsonArray(items) == [type |-> "array", items |-> items]
JsonString(fragments) == [type |-> "string", fragments |-> fragments]
Parsable(json) == [ok |-> TRUE, json |-> json]
Unparsable == [ok |-> FALSE, json |-> JsonNull]

RECURSIVE processDecodedPayload(_, _, _), processKafkaTextPayload(_, _, _),
          processItems(_, _, _, _)

\* variant: a parse error ends the loop over the fragments
processKafkaTextPayloadStopping(map, fragments, max) ==
    IF Len(fragments) = 0 \/ ~fragments[1].ok THEN map
    ELSE processKafkaTextPayload(processDecodedPayload(map, fragments[1].json, max),
                                 Tail(fragments), max)

\* each fragment: JSON.parse, then processDecodedPayload; a parse error is logged
processKafkaTextPayload(map, fragments, max) ==
    IF Len(fragments) = 0 THEN map
    ELSE LET first == fragments[1]
             after == IF first.ok THEN processDecodedPayload(map, first.json, max) ELSE map
         IN  processKafkaTextPayload(after, Tail(fragments), max)

processItems(map, items, i, max) ==
    IF i > Len(items) THEN map
    ELSE processItems(processDecodedPayload(map, items[i], max), items, i + 1, max)

processDecodedPayload(map, candidate, max) ==
    CASE candidate.type = "null" -> map
      [] candidate.type = "array" -> processItems(map, candidate.items, 1, max)
      [] candidate.type = "string" -> processKafkaTextPayload(map, candidate.fragments, max)
      [] OTHER -> addRawEvent(map, candidate.raw, max)

\* message: what decodeWithSchemaRegistry resolves to (JsonNull when the
\* registry is disabled or the decode fails) and the bytes read as UTF-8 text,
\* split into its non-empty fragments
processKafkaMessage(map, message, max) ==
    IF message.decoded # JsonNull
    THEN processDecodedPayload(map, message.decoded, max)
    ELSE processKafkaTextPayload(map, message.fragments, max)

\* objects a message carries at most
Carried(message) ==
    IF message.decoded = JsonNull THEN Len(message.fragments)
    ELSE IF message.decoded.type = "array" THEN Len(message.decoded.items) ELSE 1

TextMessage(fragments) == [decoded |-> JsonNull, fragments |-> fragments]

ObjectMessage(raw) == TextMessage(<< Parsable(JsonObject(raw)) >>)

MessageInputs ==
    { ObjectMessage(raw) : raw \in KafkaInputs }
    \cup { TextMessage(<< Unparsable, Parsable(JsonObject(EventA)) >>) }

\* eachMessage of the running consumer, or processKafkaBufferForTesting
KafkaMessage(message) ==
    /\ \/ env.test
       \/ \E p \in DOMAIN promises : promises[p] = "fulfilled"
    /\ buffers' = processKafkaMessage(buffers, message, maxEventsPerMetric)
    /\ UNCHANGED <<env, clock, promises, consumerPromise, kafkaUnavailable, cache,
                   remoteStreamCache, liveCache, req, norm, elsewhere>>

\* ingestKafkaEventForTesting(event); a no-op outside the test environment
IngestForTesting(event) ==
    /\ env.test
    /\ buffers' = ingestForTesting(buffers, event, maxEventsPerMetric)
    /\ UNCHANGED <<env, clock, promises, consumerPromise, kafkaUnavailable, cache,
                   remoteStreamCache, liveCache, req, norm, elsewhere>>

\* resetKafkaBuffersForTesting()
ResetForTesting ==
    /\ env.test
    /\ buffers # << >>
    /\ buffers' = << >>
    /\ UNCHANGED <<env, clock, promises, consumerPromise, kafkaUnavailable, cache,
                   remoteStreamCache, liveCache, req, norm, elsewhere>>

\* startConsumer(): connect, subscribe and run succeed, or one of them rejects
ConsumerSettles(p, outcome) ==
    /\ promises[p] = "pending"
    /\ promises' = [promises EXCEPT ![p] = outcome]
    /\ UNCHANGED <<env, clock, consumerPromise, kafkaUnavailable, buffers, cache,
                   remoteStreamCache, liveCache, req, norm, elsewhere>>

Tick ==
    /\ clock + TickMs <= MaxClock
    /\ clock' = clock + TickMs
    /\ UNCHANGED <<env, promises, consumerPromise, kafkaUnavailable, buffers, cache,
                   remoteStreamCache, liveCache, req, norm, elsewhere>>

-----------------------------------------------------------------------------
(* GET /api/dashboard/live -> getLiveAnalyticsSnapshot -> loadStreamEvents
   (dashboardRoutes.ts 157-169, part_000 39-100, part_011 25-46).
   A request runs from one await that waits for I/O to the next in one step. *)

LIVE_CACHE_TTL_MS == 5000
DEFAULT_POLL_SECONDS == 15
MIN_POLL_MS == 2000

\* Math.max(2_000, (Number.parseInt(env ?? '', 10) || 15) * 1000)
STREAM_POLL_MS ==
    LET parsed == ParseInt(IF env.pollSeconds = Unset THEN "" ELSE env.pollSeconds)
        seconds == IF parsed = NaN \/ parsed = 0 THEN DEFAULT_POLL_SECONDS ELSE parsed
    IN  MathMax(MIN_POLL_MS, seconds * 1000)

\* parseStreamPayload: the candidates the text parses to, normalized, nulls dropped
parseStreamPayload(body) ==
    SelectSeq(ArrayOf([i \in DOMAIN body |-> normalizeRawEvent(body[i])]),
              LAMBDA e : e # NullEvent)

Consult(rec, adapter, events) ==
    [rec EXCEPT !.consulted = Append(@, [adapter |-> adapter, yielded |-> Len(events)])]

Selected(rec, adapter, events) ==
    [Consult(rec, adapter, events) EXCEPT !.pc = "build", !.events = events, !.source = adapter]

\* loadStreamEvents from line 63 on: the remote cache, else start the fetch;
\* without STREAM_URL start reading the local file
RemoteSection(rec) ==
    IF env.url
    THEN IF Len(remoteStreamCache.events) > 0
            /\ clock - remoteStreamCache.loadedAt < STREAM_POLL_MS
         THEN Selected(rec, "remote", remoteStreamCache.events)
         ELSE [rec EXCEPT !.pc = "remoteFetch", !.loadNow = clock]
    ELSE [rec EXCEPT !.pc = "localRead"]

\* variant: the remote stream is asked whatever Kafka returned
AfterKafkaFallsThrough(rec, kafkaEvents) == RemoteSection(Consult(rec, "kafka", kafkaEvents))

\* loadStreamEvents lines 54-57: what getKafkaStreamEvents returned
AfterKafka(rec, kafkaEvents) ==
    IF Len(kafkaEvents) > 0 THEN Selected(rec, "kafka", kafkaEvents)
    ELSE RemoteSection(Consult(rec, "kafka", kafkaEvents))

\* TTLCache.get: the entry unless it is absent or expired
LiveCacheHit == liveCache # NoEntry /\ ~(liveCache.expiresAt < clock)

\* variant: the cache also serves a request that starts exactly at expiry
CacheFreshInclusive(now) == cache.snapshot # NoSnapshot /\ now - cache.loadedAt <= CACHE_TTL_MS

\* getLiveAnalyticsSnapshot line 41
CacheFresh(now) == cache.snapshot # NoSnapshot /\ now - cache.loadedAt < CACHE_TTL_MS

\* the handler up to its first wait for I/O
Start(r) ==
    /\ req[r].pc = "idle"
    /\ LET rec == [IdleReq EXCEPT !.now = clock] IN
       IF LiveCacheHit
       THEN /\ req' = [req EXCEPT ![r] = [rec EXCEPT !.pc = "done", !.status = 200,
                                              !.source = "liveCache", !.body = liveCache.value]]
            /\ UNCHANGED <<liveCache, promises, consumerPromise>>
       ELSE /\ liveCache' = NoEntry
            /\ IF CacheFresh(clock)
               THEN /\ req' = [req EXCEPT ![r] = [rec EXCEPT !.pc = "respond", !.source = "cache",
                                                      !.body = cache.snapshot]]
                    /\ UNCHANGED <<promises, consumerPromise>>
               ELSE IF ~isKafkaLiveAnalyticsEnabled
               THEN /\ req' = [req EXCEPT ![r] = RemoteSection(rec)]
                    /\ UNCHANGED <<promises, consumerPromise>>
               ELSE IF consumerPromise = 0 /\ ~env.test
               THEN \* consumerPromise = startConsumer()
                    /\ promises' = Append(promises, "pending")
                    /\ consumerPromise' = Len(promises) + 1
                    /\ req' = [req EXCEPT ![r] = [rec EXCEPT !.pc = "kafkaAwait",
                                                      !.awaiting = Len(promises) + 1]]
               ELSE IF consumerPromise # 0
               THEN /\ req' = [req EXCEPT ![r] = [rec EXCEPT !.pc = "kafkaAwait",
                                                      !.awaiting = consumerPromise]]
                    /\ UNCHANGED <<promises, consumerPromise>>
               ELSE /\ req' = [req EXCEPT ![r] = AfterKafka(rec, flattenBuffers(buffers))]
                    /\ UNCHANGED <<promises, consumerPromise>>
    /\ UNCHANGED <<env, clock, kafkaUnavailable, buffers, cache, remoteStreamCache, norm, elsewhere>>

\* variant: a failed start is not recorded
KafkaResumeForgets(r) ==
    /\ req[r].pc = "kafkaAwait"
    /\ promises[req[r].awaiting] # "pending"
    /\ IF promises[req[r].awaiting] = "rejected"
       THEN /\ consumerPromise' = 0
            /\ req' = [req EXCEPT ![r] = AfterKafka(@, << >>)]
       ELSE /\ req' = [req EXCEPT ![r] = AfterKafka(@, flattenBuffers(buffers))]
            /\ UNCHANGED consumerPromise
    /\ UNCHANGED <<env, clock, promises, kafkaUnavailable, buffers, cache, remoteStreamCache,
                   liveCache, norm, elsewhere>>

\* getKafkaStreamEvents after `await consumerPromise`
KafkaResume(r) ==
    /\ req[r].pc = "kafkaAwait"
    /\ promises[req[r].awaiting] # "pending"
    /\ IF promises[req[r].awaiting] = "rejected"
       THEN /\ kafkaUnavailable' = TRUE
            /\ consumerPromise' = 0
            /\ req' = [req EXCEPT ![r] = AfterKafka(@, << >>)]
       ELSE /\ req' = [req EXCEPT ![r] = AfterKafka(@, flattenBuffers(buffers))]
            /\ UNCHANGED <<kafkaUnavailable, consumerPromise>>
    /\ UNCHANGED <<env, clock, promises, buffers, cache, remoteStreamCache, liveCache, norm, elsewhere>>

FetchOutcomes == { [kind |-> "throws", body |-> << >>], [kind |-> "notOk", body |-> << >>] }
                   \cup { [kind |-> "ok", body |-> b] : b \in BodyInputs }

\* the answer of fetch(STREAM_URL) and response.text()
RemoteResponse(r, outcome) ==
    /\ req[r].pc = "remoteFetch"
    /\ LET events == IF outcome.kind = "ok" THEN parseStreamPayload(outcome.body) ELSE << >>
       IN  IF Len(events) > 0
           THEN /\ remoteStreamCache' = [loadedAt |-> req[r].loadNow, events |-> events]
                /\ req' = [req EXCEPT ![r] = Selected(@, "remote", events)]
           ELSE /\ req' = [req EXCEPT ![r] = [Consult(@, "remote", events) EXCEPT !.pc = "localRead"]]
                /\ UNCHANGED remoteStreamCache
    /\ UNCHANGED <<env, clock, promises, consumerPromise, kafkaUnavailable, buffers, cache,
                   liveCache, norm, elsewhere>>

ReadOutcomes == { [kind |-> "throws", body |-> << >>] }
                  \cup { [kind |-> "ok", body |-> b] : b \in BodyInputs }

\* the answer of readFile(STREAM_PATH)
LocalRead(r, outcome) ==
    /\ req[r].pc = "localRead"
    /\ LET events == IF outcome.kind = "ok" THEN parseStreamPayload(outcome.body) ELSE << >>
       IN  req' = [req EXCEPT ![r] = Selected(@, "local", events)]
    /\ UNCHANGED <<env, clock, promises, consumerPromise, kafkaUnavailable, buffers, cache,
                   remoteStreamCache, liveCache, norm, elsewhere>>

\* getLiveAnalyticsSnapshot lines 46-48; a throw of buildSnapshot reaches the
\* error handler of the app (500)
Build(r) ==
    /\ req[r].pc = "build"
    /\ LET built == buildSnapshot(req[r].events, req[r].now, clock)
       IN  IF built.threw
           THEN /\ req' = [req EXCEPT ![r].pc = "done", ![r].status = 500, ![r].builtAt = clock]
                /\ UNCHANGED cache
           ELSE /\ cache' = [loadedAt |-> req[r].now, snapshot |-> built.snapshot]
                /\ req' = [req EXCEPT ![r].pc = "respond", ![r].body = built.snapshot,
                                      ![r].builtAt = clock]
    /\ UNCHANGED <<env, clock, promises, consumerPromise, kafkaUnavailable, buffers,
                   remoteStreamCache, liveCache, norm, elsewhere>>

\* the route after getLiveAnalyticsSnapshot: schema parse (ZodError -> 400),
\* liveCache.set, res.json
Respond(r) ==
    /\ req[r].pc = "respond"
    /\ IF SchemaAccepts(req[r].body)
       THEN /\ liveCache' = [value |-> req[r].body, expiresAt |-> clock + LIVE_CACHE_TTL_MS]
            /\ req' = [req EXCEPT ![r].pc = "done", ![r].status = 200]
       ELSE /\ req' = [req EXCEPT ![r].pc = "done", ![r].status = 400]
            /\ UNCHANGED liveCache
    /\ UNCHANGED <<env, clock, promises, consumerPromise, kafkaUnavailable, buffers, cache,
                   remoteStreamCache, norm, elsewhere>>

\* the response is sent; the slot serves the next request
Finish(r) ==
    /\ req[r].pc = "done"
    /\ req' = [req EXCEPT ![r] = IdleReq]
    /\ UNCHANGED <<env, clock, promises, consumerPromise, kafkaUnavailable, buffers, cache,
                   remoteStreamCache, liveCache, norm, elsewhere>>

-----------------------------------------------------------------------------
(* Specifications *)

\* the model stops ingesting when the buffers hold MaxBuffered events
Room(n) == Buffered + n <= MaxBuffered

Messages == \E message \in MessageInputs : Room(Carried(message)) /\ KafkaMessage(message)
TestIngests == \E event \in TestingInputs : Room(1) /\ IngestForTesting(event)
Settles == \E p \in DOMAIN promises, outcome \in {"fulfilled", "rejected"} :
               ConsumerSettles(p, outcome)
Starts == \E r \in DOMAIN req : Start(r)
KafkaResumes == \E r \in DOMAIN req : KafkaResume(r)
RemoteResponses == \E r \in DOMAIN req, outcome \in FetchOutcomes : RemoteResponse(r, outcome)
LocalReads == \E r \in DOMAIN req, outcome \in ReadOutcomes : LocalRead(r, outcome)
Builds == \E r \in DOMAIN req : Build(r)
Responds == \E r \in DOMAIN req : Respond(r)
Finishes == \E r \in DOMAIN req : Finish(r)

Next ==
    \/ Tick
    \/ Messages
    \/ TestIngests
    \/ ResetForTesting
    \/ Settles
    \/ Starts
    \/ KafkaResumes
    \/ RemoteResponses
    \/ LocalReads
    \/ Builds
    \/ Responds
    \/ Finishes

Spec == Init /\ [][Next]_vars

-----------------------------------------------------------------------------
(* The Kafka buffers alone, in the test process: every entry point with every
   kind of input *)

MaxIngested == 3       \* events held in all Kafka buffers together

BufferObjects ==
    { EventA, EventB, EventC, EventHuge, EventUnknown, EventNaNTimestamp, EventNaNValue }

BufferMessageInputs ==
    { ObjectMessage(raw) : raw \in BufferObjects }
    \cup { ObjectMessage(RawPrimitive),
           TextMessage(<< Unparsable, Parsable(JsonObject(EventA)) >>),
           TextMessage(<< Parsable(JsonString(<< Parsable(JsonObject(EventB)) >>)) >>),
           TextMessage(<< Parsable(JsonNull) >>),
           [decoded |-> JsonArray(<< JsonObject(EventB), JsonObject(EventA) >>),
            fragments |-> << Unparsable >>],
           [decoded |-> JsonObject(EventC), fragments |-> << Unparsable >>] }

InitBuffers == InitWith({ [EnvDefaults EXCEPT !.test = TRUE, !.brokers = TRUE] })

BufferRoom(n) == Buffered + n <= MaxIngested

BufferMessages ==
    \E message \in BufferMessageInputs : BufferRoom(Carried(message)) /\ KafkaMessage(message)
BufferTestIngests ==
    \E event \in BufferObjects \cup { RawPrimitive } : BufferRoom(1) /\ IngestForTesting(event)

NextBuffers ==
    \/ BufferMessages
    \/ BufferTestIngests
    \/ ResetForTesting

SpecBuffers == InitBuffers /\ [][NextBuffers]_vars

-----------------------------------------------------------------------------
(* The capacity of one buffer under the configured LIVE_ANALYTICS_KAFKA_MAX_EVENTS *)

MaxCapacityEvents == 27     \* events ingested into the buffer

CapacityEnvironments ==
    { [EnvDefaults EXCEPT !.test = TRUE, !.brokers = TRUE, !.maxEvents = m] :
        m \in { Unset, "10", "26", "abc" } }

InitCapacity == InitWith(CapacityEnvironments)

CapacityIngests ==
    \E raw \in { EventA, EventB } :
        /\ Buffered < MaxCapacityEvents
        /\ KafkaMessage(ObjectMessage(raw))

NextCapacity == CapacityIngests

SpecCapacity == InitCapacity /\ [][NextCapacity]_vars

-----------------------------------------------------------------------------
(* The normalizer alone: normalizeRawEvent applied to raw inputs of every shape *)

IdInputs == { Undefined, StringJs(M1), StringJs("unknown_metric"), StringJs(""), NumberJs(7) }
TimestampInputs ==
    { Undefined, NumberJs(16000), NumberJs(0), NumberJs(NaN), NumberJs(-5000), NumberJs(HugeTs),
      StringJs("1970-01-01T00:00:31.000Z"), StringJs("1970-01-01T00:00:00.000Z"),
      StringJs("yesterday"), StringJs("") }
ValueInputs ==
    { UndefinedV, NumberV(Whole(100)), NumberV(NaNValue), StringV("120.005"), StringV("abc"),
      StringV("") }

NormalizerInputs ==
    { RawNull, RawPrimitive }
    \cup { RawObject(id1, id2, id3, NumberJs(16000), Undefined, Undefined, Undefined,
                     NumberV(Whole(100)), UndefinedV, UndefinedV) :
             id1 \in IdInputs, id2 \in { Undefined, StringJs(M2), StringJs("other") },
             id3 \in { Undefined, StringJs(M1) } }
    \cup { RawObject(StringJs(M1), Undefined, Undefined, ts1, ts2, ts3, ts4,
                     NumberV(Whole(100)), UndefinedV, UndefinedV) :
             ts1 \in TimestampInputs, ts2 \in { Undefined, NumberJs(31000), NumberJs(0) },
             ts3 \in { Undefined, StringJs("1970-01-01T00:00:16.000Z") },
             ts4 \in { Undefined, NumberJs(NaN), StringJs("1970-01-01T00:00:00.000Z") } }
    \cup { RawObject(id1, Undefined, Undefined, ts1, Undefined, Undefined, Undefined,
                     v1, v2, v3) :
             id1 \in { StringJs(M1), StringJs("unknown_metric") },
             ts1 \in { NumberJs(16000), StringJs("yesterday") },
             v1 \in ValueInputs, v2 \in { UndefinedV, NumberV(Zero) },
             v3 \in { UndefinedV, StringV("100") } }

InitNormalizer == InitWith({ EnvDefaults })

\* one call of normalizeRawEvent: its argument and what it returned
Normalize(raw) ==
    /\ norm' = [input |-> raw, output |-> normalizeRawEvent(raw)]
    /\ UNCHANGED <<env, clock, promises, consumerPromise, kafkaUnavailable, buffers, cache,
                   remoteStreamCache, liveCache, req, elsewhere>>

Normalizes == \E raw \in NormalizerInputs : Normalize(raw)

NextNormalizer == Normalizes

SpecNormalizer == InitNormalizer /\ [][NextNormalizer]_vars

-----------------------------------------------------------------------------
(* Process termination signals: the server entry point
   (server/services/partnerSignals.ts 597-616, server/metrics/scheduler.ts) *)

\* stopMetricsSchedulers(): clears the interval timer; nothing else
stopMetricsSchedulers(p) == [p EXCEPT !.timer = FALSE]

\* the consumer startConsumer() has connected and run, in a living process
ConsumerRunning == proc.alive /\ \E p \in DOMAIN promises : promises[p] = "fulfilled"

\* the kernel delivers a signal: with a listener registered Node queues the
\* event; without one the default disposition ends the process at once
Signal(s) ==
    /\ proc.alive
    /\ proc' = IF s \in proc.listeners
               THEN [proc EXCEPT !.pending = @ \cup {s}]
               ELSE [proc EXCEPT !.alive = FALSE, !.pending = {}]
    /\ UNCHANGED <<env, clock, promises, consumerPromise, kafkaUnavailable, buffers, cache,
                   remoteStreamCache, liveCache, req, norm, partner, memoryCache, redis, cacheOps,
                   cacheLog, calc>>

\* the event loop emits the event: process.once removes the listener, then
\* the listener runs stopMetricsSchedulers()
HandleSignal(s) ==
    /\ proc.alive
    /\ s \in proc.pending
    /\ proc' = stopMetricsSchedulers([proc EXCEPT !.pending = @ \ {s},
                                                  !.listeners = @ \ {s},
                                                  !.handled = @ \cup {s}])
    /\ UNCHANGED <<env, clock, promises, consumerPromise, kafkaUnavailable, buffers, cache,
                   remoteStreamCache, liveCache, req, norm, partner, memoryCache, redis, cacheOps,
                   cacheLog, calc>>

SignalsArrive == \E s \in Signals : Signal(s)
HandleSignals == \E s \in Signals : HandleSignal(s)

\* production with Kafka brokers and the local stream file
InitShutdown == InitWith({ [EnvDefaults EXCEPT !.brokers = TRUE] })

\* what the process does while it lives
Serving ==
    /\ proc.alive
    /\ \/ Messages
       \/ Settles
       \/ Starts
       \/ KafkaResumes
       \/ LocalReads
       \/ Builds
       \/ Responds
       \/ Finishes

NextShutdown ==
    \/ SignalsArrive
    \/ HandleSignals
    \/ Serving

\* the event loop runs a queued listener and settles the consumer's start
SpecShutdown ==
    /\ InitShutdown
    /\ [][NextShutdown]_vars
    /\ WF_vars(HandleSignals)
    /\ WF_vars(proc.alive /\ Settles)

-----------------------------------------------------------------------------
(* DistributedCache<T> over TTLCache<T> and Redis
   (server/utils/distributedCache.ts, server/utils/cache.ts).  One key; a
   value is tagged with the time of the set(key, value) call that wrote it. *)

CacheTickMs == 2500
MaxCacheClock == 38000

\* constructor: ttlSeconds = Math.max(1, Math.floor(ttlMs / 1000))
ttlSeconds(ttlMs) == IF ttlMs \div 1000 > 1 THEN ttlMs \div 1000 ELSE 1

\* JSON.stringify(value) and JSON.parse(raw) of the text stored in Redis
Stringify(value) == [ok |-> TRUE, text |-> value]
Garbage == [ok |-> FALSE, text |-> NoSet]

\* TTLCache.get at time now: undefined (NoEntry) when absent or expired
TTLCacheGet(entry, now) ==
    IF entry = NoEntry \/ entry.expiresAt < now THEN NoEntry ELSE entry

\* TTLCache.set at time now
TTLCacheSet(value, now, ttlMs) == [value |-> value, expiresAt |-> now + ttlMs]

\* Redis GET at time now: nil once the key's EX time has passed
RedisGet(now) == IF redis = NoEntry \/ now >= redis.expiresAt THEN NoEntry ELSE redis

Hit(value) == [kind |-> "hit", value |-> value, at |-> clock]
Miss == [kind |-> "miss", at |-> clock]

\* variant: a failure of Redis rejects the get
RedisGetFailureRejects == [kind |-> "rejected", at |-> clock]

\* DistributedCache.get, catch block (lines 38-41): warn, return undefined
RedisGetFailure == Miss

\* DistributedCache.get up to `await this.redis.get`
CacheGet(i) ==
    /\ cacheOps[i].get = NoOp
    /\ LET local == TTLCacheGet(memoryCache[i], clock) IN
       /\ memoryCache' = [memoryCache EXCEPT ![i] = local]
       /\ IF local # NoEntry
          THEN /\ cacheLog' = [cacheLog EXCEPT ![i].got = Hit(local.value)]
               /\ UNCHANGED cacheOps
          ELSE IF ~env.redis
          THEN /\ cacheLog' = [cacheLog EXCEPT ![i].got = Miss]
               /\ UNCHANGED cacheOps
          ELSE /\ cacheOps' = [cacheOps EXCEPT ![i].get = [pc |-> "redisGet"]]
               /\ cacheLog' = [cacheLog EXCEPT ![i].got = NoAnswer]
    /\ UNCHANGED <<env, clock, promises, consumerPromise, kafkaUnavailable, buffers, cache,
                   remoteStreamCache, liveCache, req, norm, partner, proc, redis, calc>>

\* DistributedCache.get from the answer of redis.get on: it throws, or returns
\* nil or the stored text; a parsed value refills the local cache for ttlMs
RedisGetReturns(i, outcome) ==
    /\ cacheOps[i].get.pc = "redisGet"
    /\ cacheOps' = [cacheOps EXCEPT ![i].get = NoOp]
    /\ LET raw == RedisGet(clock) IN
       IF outcome = "throws" \/ (raw # NoEntry /\ ~raw.raw.ok)
       THEN /\ cacheLog' = [cacheLog EXCEPT ![i].got = RedisGetFailure]
            /\ UNCHANGED memoryCache
       ELSE IF raw = NoEntry
       THEN /\ cacheLog' = [cacheLog EXCEPT ![i].got = Miss]
            /\ UNCHANGED memoryCache
       ELSE /\ memoryCache' = [memoryCache EXCEPT
                                 ![i] = TTLCacheSet(raw.raw.text, clock, LIVE_CACHE_TTL_MS)]
            /\ cacheLog' = [cacheLog EXCEPT
                              ![i].got = Hit(raw.raw.text),
                              ![i].lastSet = IF @ = NoSet THEN @
                                             ELSE [@ EXCEPT !.intact = FALSE]]
    /\ UNCHANGED <<env, clock, promises, consumerPromise, kafkaUnavailable, buffers, cache,
                   remoteStreamCache, liveCache, req, norm, partner, proc, redis, calc>>

\* DistributedCache.set up to `await this.redis.set`
CacheSet(i) ==
    /\ cacheOps[i].set = NoOp
    /\ LET value == [writtenAt |-> clock] IN
       /\ memoryCache' = [memoryCache EXCEPT ![i] = TTLCacheSet(value, clock, LIVE_CACHE_TTL_MS)]
       /\ cacheOps' = [cacheOps EXCEPT
                         ![i].set = IF env.redis THEN [pc |-> "redisSet", value |-> value]
                                    ELSE NoOp]
       /\ cacheLog' = [cacheLog EXCEPT
                         ![i].set = IF env.redis THEN "pending" ELSE "resolved",
                         ![i].lastSet = [value |-> value, at |-> clock, redisFailed |-> FALSE,
                                         intact |-> TRUE]]
    /\ UNCHANGED <<env, clock, promises, consumerPromise, kafkaUnavailable, buffers, cache,
                   remoteStreamCache, liveCache, req, norm, partner, proc, redis, calc>>

\* variant: a failure of redis.set rejects the set
RedisSetFailureRejects == "rejected"

\* DistributedCache.set, catch block (lines 53-55): warn, resolve
RedisSetFailure == "resolved"

\* the answer of redis.set(key, text, 'EX', ttlSeconds): stored, or it throws
RedisSetReturns(i, outcome) ==
    /\ cacheOps[i].set.pc = "redisSet"
    /\ cacheOps' = [cacheOps EXCEPT ![i].set = NoOp]
    /\ IF outcome = "throws"
       THEN /\ cacheLog' = [cacheLog EXCEPT ![i].set = RedisSetFailure,
                                            ![i].lastSet.redisFailed = TRUE]
            /\ UNCHANGED redis
       ELSE /\ redis' = [raw |-> Stringify(cacheOps[i].set.value),
                         expiresAt |-> clock + ttlSeconds(LIVE_CACHE_TTL_MS) * 1000]
            /\ cacheLog' = [cacheLog EXCEPT ![i].set = "resolved"]
    /\ UNCHANGED <<env, clock, promises, consumerPromise, kafkaUnavailable, buffers, cache,
                   remoteStreamCache, liveCache, req, norm, partner, proc, memoryCache, calc>>

\* something else writes text under the key that is no JSON
RedisCorrupted ==
    /\ env.redis
    /\ redis # NoEntry
    /\ redis.raw.ok
    /\ redis' = [redis EXCEPT !.raw = Garbage]
    /\ UNCHANGED <<env, clock, promises, consumerPromise, kafkaUnavailable, buffers, cache,
                   remoteStreamCache, liveCache, req, norm, partner, proc, memoryCache, cacheOps,
                   cacheLog, calc>>

\* time passes between cache operations: Redis answers, or the command fails,
\* well within one tick of the model
CacheTick ==
    /\ clock + CacheTickMs <= MaxCacheClock
    /\ \A i \in Instances : cacheOps[i] = [get |-> NoOp, set |-> NoOp]
    /\ clock' = clock + CacheTickMs
    /\ UNCHANGED <<env, promises, consumerPromise, kafkaUnavailable, buffers, cache,
                   remoteStreamCache, liveCache, req, norm, elsewhere>>

CacheGets == \E i \in Instances : CacheGet(i)
CacheSets == \E i \in Instances : CacheSet(i)
RedisGetsReturn == \E i \in Instances, outcome \in { "answers", "throws" } :
                       RedisGetReturns(i, outcome)
RedisSetsReturn == \E i \in Instances, outcome \in { "stored", "throws" } :
                       RedisSetReturns(i, outcome)

\* the local TTL cache alone, and Redis configured
InitCache == InitWith({ EnvDefaults, [EnvDefaults EXCEPT !.redis = TRUE] })

NextCache ==
    \/ CacheTick
    \/ CacheGets
    \/ CacheSets
    \/ RedisGetsReturn
    \/ RedisSetsReturn
    \/ RedisCorrupted

SpecCache == InitCache /\ [][NextCache]_vars

-----------------------------------------------------------------------------
(* Concurrent requests: two GET /live handlers interleave at their awaits;
   the events come from the local stream file *)

ConcurrentReqs == { "r1", "r2" }

InitConcurrent == InitFor({ EnvDefaults }, ConcurrentReqs)

NextConcurrent ==
    \/ Tick
    \/ Starts
    \/ LocalReads
    \/ Builds
    \/ Responds
    \/ Finishes

SpecConcurrent == InitConcurrent /\ [][NextConcurrent]_vars

-----------------------------------------------------------------------------
(* evaluateAnomaly alone, applied to values around every band of thresholds *)

AnomalyValues ==
    { Whole(20), Whole(30), Fin(35, 5), Whole(40), Fin(45, 123), Whole(50), Whole(60),
      Whole(70), Fin(75, 500), Fin(79, 996), Whole(80), Fin(80, 123), Whole(85), Whole(90),
      Fin(95, 555), Fin(-3, 250) }

\* every subset of the four thresholds; a critical threshold also on the
\* wrong side of its warning threshold
AnomalyThresholds ==
    { Thresholds(uw, uc, lw, lc) :
        uw \in { NoThreshold, Whole(80) }, uc \in { NoThreshold, Whole(90), Whole(70) },
        lw \in { NoThreshold, Whole(40) }, lc \in { NoThreshold, Whole(30), Whole(50) } }
    \cup { NoGuardrails }

InitAnomaly == InitWith({ EnvDefaults })

\* one call of evaluateAnomaly: its arguments and what it returned
Evaluate(value, thresholds) ==
    /\ calc' = [op |-> "evaluateAnomaly", value |-> value, thresholds |-> thresholds,
                anomaly |-> evaluateAnomaly(value, thresholds)]
    /\ UNCHANGED <<env, clock, promises, consumerPromise, kafkaUnavailable, buffers, cache,
                   remoteStreamCache, liveCache, req, norm, partner, proc, memoryCache, redis,
                   cacheOps, cacheLog>>

Evaluates == \E value \in AnomalyValues, thresholds \in AnomalyThresholds :
                 Evaluate(value, thresholds)

NextAnomaly == Evaluates

SpecAnomaly == InitAnomaly /\ [][NextAnomaly]_vars

-----------------------------------------------------------------------------
(* buildSnapshot as a function of the selected events: one call per step,
   over event lists as the adapters deliver them and three settings of
   LIVE_ANALYTICS_WINDOW_SECONDS *)

BuilderEnvironments ==
    { EnvDefaults,
      [EnvDefaults EXCEPT !.windowSeconds = "60"],
      [EnvDefaults EXCEPT !.windowSeconds = "-5"] }

\* timestamps: 16 s and 31 s; 200 s, more than a window later and after the
\* request (clock is 30 s); -5 s, finite but before the epoch
BuilderEvents ==
    { StreamEvent(M1, ts, v) : ts \in { 16000, 31000, 200000, -5000 },
                               v \in { Whole(100), Whole(120), Fin(100, 126) } }
    \cup { StreamEvent(M2, 16000, Whole(100)), StreamEvent(M2, 31000, Whole(120)) }

\* twelve events of one metric, `gap` ms apart, with values 1..12
Twelve(gap) == ArrayOf([k \in 1..12 |-> StreamEvent(M1, k * gap, Whole(k))])

BuilderInputs ==
    { << e >> : e \in BuilderEvents }
    \cup { << e, f >> : e \in BuilderEvents, f \in BuilderEvents }
    \cup { Twelve(1000), Reverse(Twelve(1000)), Twelve(15000),
           << StreamEvent(M1, 16000, Whole(100)), StreamEvent(M1, 31000, Fin(100, 126)),
              StreamEvent(M1, 31000, Whole(120)) >>,
           << StreamEvent(M1, 31000, Whole(120)), StreamEvent(M1, NaN, Whole(100)),
              StreamEvent(M1, 16000, Whole(100)) >>,
           << StreamEvent(M1, HugeTs, Whole(100)) >> }

InitBuilder == InitWith(BuilderEnvironments)

\* the call buildSnapshot(events, now) with now = Date.now() = clock
BuildFrom(events) ==
    /\ calc.op = "none"
    /\ calc' = [op |-> "buildSnapshot", events |-> events, now |-> clock,
                built |-> buildSnapshot(events, clock, clock)]
    /\ UNCHANGED <<env, clock, promises, consumerPromise, kafkaUnavailable, buffers, cache,
                   remoteStreamCache, liveCache, req, norm, partner, proc, memoryCache, redis,
                   cacheOps, cacheLog>>

BuildsFrom == \E events \in BuilderInputs : BuildFrom(events)

NextBuilder == BuildsFrom

SpecBuilder == InitBuilder /\ [][NextBuilder]_vars

-----------------------------------------------------------------------------
(* composeNarrative as a function of the metrics: one call per behaviour *)

\* a metric of the catalog with the given latest value and delta
MetricWith(i, value, delta) ==
    LiveMetric(liveMetricCatalog[i], Round2(value), delta, << >>,
               evaluateAnomaly(value, liveMetricCatalog[i].thresholds), "live")

\* per catalog metric a healthy value, a warning one and a critical one
NarrativeValues ==
    << { Whole(42000000), Whole(46000000), Whole(53000000) },
       { Whole(82), Whole(65), Whole(55) },
       { Whole(280), Whole(330), Whole(430) },
       { Whole(148), Whole(100), Whole(80) } >>

NarrativeDeltas == { Zero, Fin(2, 500), Fin(-3, 0) }

NarrativeMetrics ==
    UNION { { MetricWith(i, value, delta) : value \in NarrativeValues[i], delta \in NarrativeDeltas } :
              i \in DOMAIN liveMetricCatalog }

\* one entry per catalog metric, in catalog order, as buildSnapshot passes them
CatalogSnapshots ==
    { << MetricWith(1, a, Zero), MetricWith(2, b, Fin(2, 500)),
         MetricWith(3, c, Zero), MetricWith(4, d, Fin(-3, 0)) >> :
        a \in NarrativeValues[1], b \in NarrativeValues[2],
        c \in NarrativeValues[3], d \in NarrativeValues[4] }

NarrativeInputs ==
    { << >> }
    \cup { << m >> : m \in NarrativeMetrics }
    \cup { << m, n >> : m \in NarrativeMetrics, n \in NarrativeMetrics }
    \cup { << m, m, n >> : m \in { MetricWith(2, Whole(55), Zero), MetricWith(2, Whole(82), Zero) },
                           n \in NarrativeMetrics }
    \cup CatalogSnapshots

InitNarrative == InitWith({ EnvDefaults })

\* the call composeNarrative(metrics)
Compose(metrics) ==
    /\ calc.op = "none"
    /\ calc' = [op |-> "composeNarrative", metrics |-> metrics,
                narrative |-> composeNarrative(metrics)]
    /\ UNCHANGED <<env, clock, promises, consumerPromise, kafkaUnavailable, buffers, cache,
                   remoteStreamCache, liveCache, req, norm, partner, proc, memoryCache, redis,
                   cacheOps, cacheLog>>

Composes == \E metrics \in NarrativeInputs : Compose(metrics)

NextNarrative == Composes

SpecNarrative == InitNarrative /\ [][NextNarrative]_vars

-----------------------------------------------------------------------------
(* generateSyntheticSnapshot called twice, at two readings of the clock *)

\* clock readings: several within one 15 s tick, and at tick boundaries
SyntheticClocks ==
    { 30000, 30001, 37500, 44999, 45000, 52000, 59999, 60000, 75000, 150000, 150750, 164999 }

InitSynthetic == InitWith({ EnvDefaults })

\* two calls generateSyntheticSnapshot(windowSeconds) with Date.now() = first, second
GenerateTwice(first, second) ==
    /\ calc.op = "none"
    /\ calc' = [op |-> "generateSyntheticSnapshot", issuedAt |-> << first, second >>,
                snapshots |-> << generateSyntheticSnapshot(configuredWindowSeconds, first),
                                 generateSyntheticSnapshot(configuredWindowSeconds, second) >>]
    /\ UNCHANGED <<env, clock, promises, consumerPromise, kafkaUnavailable, buffers, cache,
                   remoteStreamCache, liveCache, req, norm, partner, proc, memoryCache, redis,
                   cacheOps, cacheLog>>

GeneratesTwice == \E first \in SyntheticClocks, second \in SyntheticClocks :
                      GenerateTwice(first, second)

NextSynthetic == GeneratesTwice

SpecSynthetic == InitSynthetic /\ [][NextSynthetic]_vars

-----------------------------------------------------------------------------
(* One Kafka message through the handler: the schema-registry decode, then the
   decoded payload or the bytes as text (part_011 lines 92-146,
   liveAnalyticsSchemaRegistry.ts lines 51-86) *)

\* decodeWithSchemaRegistry(value, headers): null when the registry is
\* disabled or its construction failed, when decode rejects (caught, logged),
\* or when decode resolves to null; else what decode resolved to
decodeWithSchemaRegistry(registry) ==
    CASE registry.kind = "disabled" -> JsonNull
      [] registry.kind = "initFailed" -> JsonNull
      [] registry.kind = "rejects" -> JsonNull
      [] OTHER -> registry.value

DecodeOutcomes ==
    { [kind |-> k, value |-> JsonNull] : k \in { "disabled", "initFailed", "rejects", "resolves" } }
    \cup { [kind |-> "resolves", value |-> v] :
             v \in { JsonObject(EventA), JsonObject(EventUnknown),
                     JsonArray(<< JsonObject(EventB), JsonObject(EventA) >>),
                     JsonString(<< Parsable(JsonObject(EventB)), Unparsable,
                                   Parsable(JsonObject(EventC)) >>) } }

\* the bytes of the message as text: its non-empty lines
TextInputs ==
    { << >>, << Unparsable >>, << Parsable(JsonNull) >>,
      << Unparsable, Parsable(JsonObject(EventA)), Unparsable, Parsable(JsonObject(EventC)) >>,
      << Parsable(JsonArray(<< JsonObject(EventB), JsonObject(EventC) >>)) >> }

\* eachMessage for one message; calc keeps the message and the buffers before it
HandleMessage(registry, fragments) ==
    /\ Buffered < MaxIngested
    /\ buffers' = processKafkaMessage(buffers,
                                      [decoded |-> decodeWithSchemaRegistry(registry),
                                       fragments |-> fragments],
                                      maxEventsPerMetric)
    /\ calc' = [op |-> "processKafkaMessage", registry |-> registry, fragments |-> fragments,
                before |-> buffers]
    /\ UNCHANGED <<env, clock, promises, consumerPromise, kafkaUnavailable, cache,
                   remoteStreamCache, liveCache, req, norm, partner, proc, memoryCache, redis,
                   cacheOps, cacheLog>>

HandlesMessages == \E registry \in DecodeOutcomes, fragments \in TextInputs :
                       HandleMessage(registry, fragments)

NextMessages == HandlesMessages

SpecMessages == InitBuffers /\ [][NextMessages]_vars

-----------------------------------------------------------------------------
(* Remote stream polling: two request slots, the stream URL configured, the
   clock running over one poll interval *)

PollTickMs == 7500        \* granularity of the clock
MaxPollClock == 45000     \* the clock stops one default poll interval after the start

PollEnvironments ==
    { [EnvDefaults EXCEPT !.url = TRUE, !.pollSeconds = p] : p \in { Unset, "-5" } }

\* the upstream fails, or answers with one valid event, or with none
PollFetchOutcomes ==
    { [kind |-> "throws", body |-> << >>], [kind |-> "ok", body |-> << EventC >>],
      [kind |-> "ok", body |-> << EventUnknown >>] }

PollReadOutcomes == { [kind |-> "throws", body |-> << >>] }

PollResponses == \E r \in DOMAIN req, outcome \in PollFetchOutcomes : RemoteResponse(r, outcome)
PollReads == \E r \in DOMAIN req, outcome \in PollReadOutcomes : LocalRead(r, outcome)

InitPolling == InitFor(PollEnvironments, ConcurrentReqs)

PollTick ==
    /\ clock + PollTickMs <= MaxPollClock
    /\ clock' = clock + PollTickMs
    /\ UNCHANGED <<env, promises, consumerPromise, kafkaUnavailable, buffers, cache,
                   remoteStreamCache, liveCache, req, norm, elsewhere>>

NextPolling ==
    \/ PollTick
    \/ Starts
    \/ PollResponses
    \/ PollReads
    \/ Builds
    \/ Responds
    \/ Finishes

SpecPolling == InitPolling /\ [][NextPolling]_vars

-----------------------------------------------------------------------------
(* The partner API: attachRequestUser, requireRole and the moderation routes
   (server/middleware/auth.ts, server/middleware/requireRole.ts,
   unnamed/part_005, server/services/partnerSignals.ts and the shadow queue
   service) *)

parseRole(role) ==
    IF role = "merchant" \/ role = "colleague" THEN role ELSE "merchant"

\* server/services/idpVerifier.ts: null for a token that does not verify,
\* otherwise the identity of its claims
verifyIdentityToken(token) ==
    CASE token = "merchant-jwt" -> [id |-> "m7", role |-> "merchant"]
      [] token = "colleague-jwt" -> [id |-> "k9", role |-> "colleague"]
      [] OTHER -> NoIdentity

\* status 401 when the middleware answers itself, 0 when it calls next()
attachRequestUser(headers) ==
    LET fallbackRole == parseRole(headers.role)
        fallbackId == IF headers.id # Unset THEN headers.id
                      ELSE IF fallbackRole = "colleague" THEN "anon-colleague"
                      ELSE "anon-merchant"
        fallback == [status |-> 0, user |-> [id |-> fallbackId, role |-> fallbackRole]]
        refused == [status |-> 401, user |-> NoUser]
    IN  IF env.idp = "true"
        THEN IF headers.token # Unset
             THEN LET identity == verifyIdentityToken(headers.token)
                  IN  IF identity # NoIdentity THEN [status |-> 0, user |-> identity]
                      ELSE IF env.idpRequireToken = "true" THEN refused
                      ELSE fallback
             ELSE IF env.idpRequireToken = "true" THEN refused
             ELSE fallback
        ELSE fallback

\* a variant that asks for an attached user only
requireRoleOfAnyUser(allowedRoles, user) ==
    user # NoUser

\* TRUE when the middleware calls next(), FALSE when it answers 403
requireRole(allowedRoles, user) ==
    LET role == IF user = NoUser THEN "merchant" ELSE user.role
    IN  role \in allowedRoles

isShadowQueueEnabled == env.shadowQueue # "false"

\* a variant whose UPDATE has no "AND status = 'pending'"
recordShadowQueueDecisionOfAnyStatus(queue, queueId, reviewer, input, now) ==
    IF ~isShadowQueueEnabled THEN [queue |-> queue, updated |-> NoRow]
    ELSE IF queueId \in DOMAIN queue
         THEN LET row == [status |-> IF input = "escalated" THEN "escalated" ELSE "acknowledged",
                          decision_at |-> now, decision_by_id |-> reviewer.id]
              IN  [queue |-> [queue EXCEPT ![queueId] = row], updated |-> row]
         ELSE [queue |-> queue, updated |-> NoRow]

\* one statement: the UPDATE of the pending row and the SELECT of what it returned
recordShadowQueueDecision(queue, queueId, reviewer, input, now) ==
    IF ~isShadowQueueEnabled THEN [queue |-> queue, updated |-> NoRow]
    ELSE IF queueId \in DOMAIN queue /\ queue[queueId].status = "pending"
         THEN LET row == [status |-> IF input = "escalated" THEN "escalated" ELSE "acknowledged",
                          decision_at |-> now, decision_by_id |-> reviewer.id]
              IN  [queue |-> [queue EXCEPT ![queueId] = row], updated |-> row]
         ELSE [queue |-> queue, updated |-> NoRow]

\* one transaction on the locked row of the signal
updatePartnerSignalStatus(store, status, reviewer) ==
    IF store.signal.status = status THEN store
    ELSE [store EXCEPT !.signal.status = status,
                       !.audits = Append(@, [reviewer_id |-> reviewer.id, action |-> "status_change",
                                             from_status |-> store.signal.status, to_status |-> status])]

assignPartnerSignalReviewer(store, reviewerId) ==
    [store EXCEPT !.assignments = Append([i \in DOMAIN @ |-> [@[i] EXCEPT !.active = FALSE]],
                                         [reviewer_id |-> reviewerId, active |-> TRUE]),
                  !.signal.assigned_reviewer_id = reviewerId,
                  !.audits = Append(@, [reviewer_id |-> reviewerId, action |-> "assigned",
                                        from_status |-> store.signal.status,
                                        to_status |-> store.signal.status])]

Request(endpoint, headers, target, body) ==
    [endpoint |-> endpoint, headers |-> headers, target |-> target, body |-> body]

\* app.use(attachRequestUser), then the route: requireRole and the handler up
\* to its first await
Arrive(c, request) ==
    /\ partner.calls[c].pc = "idle"
    /\ Len(partner.audits) < MaxAuditRows
    /\ LET attached == attachRequestUser(request.headers)
           call == [IdleCall EXCEPT !.endpoint = request.endpoint, !.headers = request.headers,
                                    !.target = request.target, !.body = request.body,
                                    !.user = attached.user]
       IN  partner' = [partner EXCEPT !.calls[c] =
               IF attached.status = 401
               THEN [call EXCEPT !.pc = "done", !.status = 401]
               ELSE IF request.endpoint \in ModerationEndpoints
                       /\ ~requireRole({ "colleague" }, attached.user)
               THEN [call EXCEPT !.pc = "done", !.status = 403]
               ELSE IF request.endpoint = GetShadowQueue /\ ~isShadowQueueEnabled
               THEN [call EXCEPT !.pc = "done", !.handled = TRUE, !.status = 200]
               ELSE IF request.endpoint = PostDecision /\ ~isShadowQueueEnabled
               THEN [call EXCEPT !.pc = "done", !.handled = TRUE, !.status = 404]
               ELSE [call EXCEPT !.pc = "query", !.handled = TRUE]]
    /\ UNCHANGED <<env, clock, promises, consumerPromise, kafkaUnavailable, buffers, cache,
                   remoteStreamCache, liveCache, req, norm, proc, memoryCache, redis,
                   cacheOps, cacheLog, calc>>

\* the database runs the handler's statement or transaction, and the handler answers
Execute(c) ==
    /\ partner.calls[c].pc = "query"
    /\ LET call == partner.calls[c]
           decided == recordShadowQueueDecision(partner.queue, call.target, call.user,
                                                call.body, clock)
           store == CASE call.endpoint = PatchStatus ->
                             updatePartnerSignalStatus(partner, call.body, call.user)
                      [] call.endpoint = PostAssignments ->
                             assignPartnerSignalReviewer(partner, call.body)
                      [] call.endpoint = PostDecision ->
                             [partner EXCEPT !.queue = decided.queue]
                      [] OTHER -> partner
           status == IF call.endpoint = PostDecision /\ decided.updated = NoRow THEN 404 ELSE 200
       IN  partner' = [store EXCEPT !.calls[c] = [call EXCEPT !.pc = "done", !.status = status]]
    /\ UNCHANGED <<env, clock, promises, consumerPromise, kafkaUnavailable, buffers, cache,
                   remoteStreamCache, liveCache, req, norm, proc, memoryCache, redis,
                   cacheOps, cacheLog, calc>>

\* the response is out
Complete(c) ==
    /\ partner.calls[c].pc = "done"
    /\ partner' = [partner EXCEPT !.calls[c] = IdleCall]
    /\ UNCHANGED <<env, clock, promises, consumerPromise, kafkaUnavailable, buffers, cache,
                   remoteStreamCache, liveCache, req, norm, proc, memoryCache, redis,
                   cacheOps, cacheLog, calc>>

Executes == \E c \in Callers : Execute(c)
Completes == \E c \in Callers : Complete(c)

(* Requests of one caller to every route, with every role header and token *)

HeaderRoles == { Unset, "merchant", "colleague", "admin" }
Tokens == { Unset, "invalid", "merchant-jwt", "colleague-jwt" }

ModerationEnvironments ==
    { EnvDefaults,
      [EnvDefaults EXCEPT !.shadowQueue = "false"],
      [EnvDefaults EXCEPT !.idp = "true"],
      [EnvDefaults EXCEPT !.idp = "true", !.idpRequireToken = "true"] }

Targets(endpoint) == IF endpoint = PostDecision THEN { "q1", "q9" } ELSE { "s1" }

Bodies(endpoint) ==
    CASE endpoint = PatchStatus -> { "approved", "archived" }
      [] endpoint = PostAssignments -> { "k9" }
      [] endpoint = PostDecision -> { "acknowledged", "escalated" }
      [] OTHER -> { "" }

ModerationRequests ==
    UNION { { Request(endpoint, [role |-> role, id |-> "u1", token |-> token], target, body) :
                role \in HeaderRoles,
                token \in IF env.idp = "true" THEN Tokens ELSE { Unset },
                target \in Targets(endpoint),
                body \in Bodies(endpoint) } :
            endpoint \in ModerationEndpoints \cup { GetAudits } }

ModerationArrives == \E request \in ModerationRequests : Arrive("c1", request)

InitModeration == InitWith(ModerationEnvironments)

NextModeration ==
    \/ ModerationArrives
    \/ Executes
    \/ Completes

SpecModeration == InitModeration /\ [][NextModeration]_vars

(* Two colleagues deciding shadow-queue items at the same time *)

DecisionEnvironments == { EnvDefaults, [EnvDefaults EXCEPT !.shadowQueue = "false"] }

DecisionRequests(c) ==
    { Request(PostDecision, [role |-> "colleague", id |-> c, token |-> Unset], target, body) :
        target \in Targets(PostDecision), body \in Bodies(PostDecision) }

DecisionArrives == \E c \in Callers : \E request \in DecisionRequests(c) : Arrive(c, request)

InitShadowQueue == InitWith(DecisionEnvironments)

NextShadowQueue ==
    \/ Tick
    \/ DecisionArrives
    \/ Executes
    \/ Completes

SpecShadowQueue == InitShadowQueue /\ [][NextShadowQueue]_vars

-----------------------------------------------------------------------------
(* Concurrent requests in a production process with Kafka brokers: the start
   of the consumer (unnamed/part_011 16-46) *)

InitConsumer == InitFor({ [EnvDefaults EXCEPT !.brokers = TRUE] }, ConcurrentReqs)

NextConsumer ==
    \/ Tick
    \/ Settles
    \/ Starts
    \/ KafkaResumes
    \/ LocalReads
    \/ Builds
    \/ Responds
    \/ Finishes

SpecConsumer == InitConsumer /\ [][NextConsumer]_vars

-----------------------------------------------------------------------------
(* Properties *)

Range(seq) == { seq[i] : i \in DOMAIN seq }
Count(seq, e) == Cardinality({ k \in DOMAIN seq : seq[k] = e })
Adapters == { "kafka", "remote", "local" }
AdapterRank(a) == CASE a = "kafka" -> 1 [] a = "remote" -> 2 [] OTHER -> 3

\* the request holds a snapshot that buildSnapshot made for it
HoldsBuiltSnapshot(r) == req[r].source \in Adapters /\ req[r].body # NoSnapshot

InCatalogOrder(snapshot) ==
    /\ Len(snapshot.metrics) = Len(liveMetricCatalog)
    /\ \A i \in DOMAIN liveMetricCatalog : snapshot.metrics[i].id = liveMetricCatalog[i].id

\* C1: whatever the adapters do, getLiveAnalyticsSnapshot resolves without
\* throwing to a snapshot with one entry per catalog metric, in catalog order,
\* and a non-empty narrative; with no event from any adapter the snapshot is
\* the synthetic one.
C1_SnapshotAlwaysResolves ==
    \A r \in Reqs :
        /\ req[r].status # 500
        /\ HoldsBuiltSnapshot(r) =>
             /\ InCatalogOrder(req[r].body)
             /\ Len(req[r].body.narrative) > 0
             /\ Len(req[r].events) = 0 =>
                  req[r].body = generateSyntheticSnapshot(configuredWindowSeconds, req[r].builtAt)

\* C2: the adapters are asked in the order Kafka, remote, local; every adapter
\* asked before the last one yielded no event; the build uses the events of the
\* last adapter asked; an adapter that was not asked is disabled or comes after
\* one that yielded events.
C2_FallbackOrder ==
    \A r \in Reqs :
        LET c == req[r].consulted IN
        /\ \A i, j \in DOMAIN c : i < j => AdapterRank(c[i].adapter) < AdapterRank(c[j].adapter)
        /\ \A i \in DOMAIN c : i < Len(c) => c[i].yielded = 0
        /\ req[r].pc = "build" =>
             /\ Len(c) > 0
             /\ req[r].source = c[Len(c)].adapter
             /\ Len(req[r].events) = c[Len(c)].yielded
             /\ c[Len(c)].yielded = 0 => c[Len(c)].adapter = "local"
             /\ (\A i \in DOMAIN c : c[i].adapter # "kafka") => (~env.brokers \/ kafkaUnavailable)
             /\ (c[Len(c)].adapter = "local" /\ \A i \in DOMAIN c : c[i].adapter # "remote")
                  => ~env.url

\* a build that asked all three adapters and got its events from the local file
C2_Witness ==
    \E r \in Reqs :
        /\ req[r].pc = "build"
        /\ Len(req[r].consulted) = 3
        /\ req[r].consulted[3].yielded > 0

\* C3: GET /api/dashboard/live answers 200 with a snapshot, whatever the event
\* sources hold and whichever adapter fails.
C3_AlwaysAnswers200 ==
    \A r \in Reqs : req[r].pc = "done" => (req[r].status = 200 /\ req[r].body # NoSnapshot)

\* C4: in a built snapshot the entry of a catalog metric is the synthetic one
\* exactly when the selected events hold no event of that metric, and is made
\* of that metric's events otherwise; with no events at all the snapshot is
\* the synthetic snapshot.
C4_SyntheticExactlyWithoutEvents ==
    \A r \in Reqs :
        HoldsBuiltSnapshot(r) =>
            LET body == req[r].body
                events == req[r].events
            IN  /\ InCatalogOrder(body)
                /\ \A i \in DOMAIN liveMetricCatalog :
                     LET own == { e \in Range(events) : e.metricId = liveMetricCatalog[i].id }
                     IN  /\ (own = { }) <=> (body.metrics[i].origin = "synthetic")
                         /\ own = { } => body.metrics[i] = syntheticMetric(i, req[r].builtAt)
                         /\ own # { } =>
                              /\ \A p \in Range(body.metrics[i].trend) :
                                   \E e \in own : /\ p.timestamp = toISOString(e.timestamp)
                                                  /\ p.value = Round2(e.value)
                              /\ \E e \in own : body.metrics[i].value = Round2(e.value)
                /\ Len(events) = 0 =>
                     body = generateSyntheticSnapshot(configuredWindowSeconds, req[r].builtAt)

\* Kafka gave events of one metric only: another metric is synthetic although
\* the remote stream cache holds events of it
C4_Witness ==
    \E r \in Reqs :
        /\ HoldsBuiltSnapshot(r)
        /\ req[r].source = "kafka"
        /\ \E i \in DOMAIN liveMetricCatalog :
             /\ req[r].body.metrics[i].id = M1
             /\ req[r].body.metrics[i].origin = "live"
        /\ \E i \in DOMAIN liveMetricCatalog :
             /\ req[r].body.metrics[i].id = M2
             /\ req[r].body.metrics[i].origin = "synthetic"
        /\ \E k \in DOMAIN remoteStreamCache.events : remoteStreamCache.events[k].metricId = M2

IsNonEmptyString(v) == v.t = "string" /\ v.s # ""

\* the first non-empty string among metricId, metric_id, metricID
ResolvedMetricId(raw) ==
    IF raw.kind # "object" THEN NullString
    ELSE IF IsNonEmptyString(raw.metricId) THEN raw.metricId.s
    ELSE IF IsNonEmptyString(raw.metric_id) THEN raw.metric_id.s
    ELSE IF IsNonEmptyString(raw.metricID) THEN raw.metricID.s
    ELSE NullString

ParsesToFiniteMs(v) ==
    \/ v.t = "number" /\ v.n # NaN
    \/ v.t = "string" /\ DateParse(v.s) # NaN

HoldsFiniteNumber(v) ==
    \/ v.t = "number" /\ v.n.k = "fin"
    \/ v.t = "string" /\ v.s # "" /\ NumberOf(v.s).k = "fin"

\* C5: normalizeRawEvent returns for every input, and returns null when the
\* resolved metric id is not a catalog id, when none of the four timestamp
\* fields parses to a finite millisecond value, or when none of the three
\* value fields holds a finite number (a numeric string counts, as the code
\* converts it); what it returns otherwise is a complete event.
C5_NormalizerReturnsNull ==
    LET raw == norm.input
        out == norm.output
    IN  /\ raw.kind # "object" => out = NullEvent
        /\ ResolvedMetricId(raw) \notin CatalogIds => out = NullEvent
        /\ raw.kind = "object" =>
             /\ ~(\E f \in { "timestamp", "timestampMs", "timestamp_ms", "eventTime" } :
                     ParsesToFiniteMs(raw[f])) => out = NullEvent
             /\ ~(\E f \in { "value", "metricValue", "valueNumeric" } :
                     HoldsFiniteNumber(raw[f])) => out = NullEvent
        /\ out # NullEvent =>
             /\ out.metricId = ResolvedMetricId(raw)
             /\ out.timestamp # NaN /\ out.timestamp # Null
             /\ out.value.k = "fin"

\* an object with an unknown metric id and a good timestamp and value gave null
C5_Witness ==
    /\ norm.input.kind = "object"
    /\ norm.input.metricId = StringJs("unknown_metric")
    /\ norm.input.timestamp = NumberJs(16000)
    /\ norm.input.value = NumberV(Whole(100))
    /\ norm.output = NullEvent

Ascending(seq) ==
    \A j, k \in DOMAIN seq :
        (j < k /\ seq[j].timestamp # NaN /\ seq[k].timestamp # NaN)
            => seq[j].timestamp <= seq[k].timestamp

\* C7: every Kafka buffer is in non-decreasing timestamp order, and so are the
\* events a build takes from it for the trend of the metric.
C7_BuffersAscending ==
    \A i \in DOMAIN buffers :
        /\ Ascending(buffers[i].bucket)
        /\ Ascending(TrendEvents(buffers[i].bucket, configuredWindowSeconds))

\* C8: a buffer holds at most maxEventsPerMetric events, a bound that is a
\* number and at least 25 whatever LIVE_ANALYTICS_KAFKA_MAX_EVENTS is set to.
C8_BufferBounded ==
    \A i \in DOMAIN buffers :
        /\ maxEventsPerMetric # NaN
        /\ maxEventsPerMetric >= MIN_EVENTS_PER_METRIC
        /\ Len(buffers[i].bucket) <= maxEventsPerMetric

\* C9: a request step leaves the buffers alone; the events a build takes from
\* Kafka are exactly the buffered events, buffer by buffer in their order; a
\* later ingest does not change the events of a build in flight; an ingest
\* removes events from a buffer only by trimming it to its capacity.  (The
\* last part is about ingests: resetKafkaBuffersForTesting, the one step that
\* empties the buffers, is not one.)
C9_BuildsOnlyRead ==
    [][ /\ req' # req => buffers' = buffers
        /\ \A r \in Reqs :
             /\ (req[r].pc = "build" /\ req'[r].pc = "build") => req'[r].events = req[r].events
             /\ (req[r].pc # "build" /\ req'[r].pc = "build" /\ req'[r].source = "kafka") =>
                  /\ \A i \in DOMAIN buffers :
                       SelectSeq(req'[r].events, LAMBDA e : e.metricId = buffers[i].key)
                           = buffers[i].bucket
                  /\ \A e \in Range(req'[r].events) :
                       \E i \in DOMAIN buffers : buffers[i].key = e.metricId
        /\ (buffers' # buffers /\ buffers' # << >>) =>
             \A i \in DOMAIN buffers :
                 \/ \A e \in Range(buffers[i].bucket) :
                        Count(MapGet(buffers', buffers[i].key), e) >= Count(buffers[i].bucket, e)
                 \/ /\ maxEventsPerMetric # NaN
                    /\ Len(MapGet(buffers', buffers[i].key)) = maxEventsPerMetric
      ]_vars

\* a build works on one event taken from Kafka while the buffers hold two
C9_Witness ==
    \E r \in Reqs :
        /\ req[r].pc = "build"
        /\ req[r].source = "kafka"
        /\ Len(req[r].events) = 1
        /\ \E i \in DOMAIN buffers : Len(buffers[i].bucket) = 2

\* C10: a failed consumer start does not fail the request that waited for it:
\* it records kafkaUnavailable and goes on to the next adapter with no Kafka
\* events; kafkaUnavailable stays set, and while it is set no consumer is
\* started, no request waits for one, and a build asks the remote stream or
\* the local file without asking Kafka.
C10_FailedStartIsRemembered ==
    [][ /\ kafkaUnavailable => kafkaUnavailable'
        /\ kafkaUnavailable =>
             /\ Len(promises') = Len(promises)
             /\ consumerPromise' = 0
             /\ \A r \in Reqs :
                  /\ req'[r].pc # "kafkaAwait"
                  /\ (req[r].pc = "idle" /\ req'[r].pc \in { "remoteFetch", "localRead", "build" })
                       => \A i \in DOMAIN req'[r].consulted :
                              req'[r].consulted[i].adapter # "kafka"
        /\ \A r \in Reqs :
             (/\ req[r].pc = "kafkaAwait"
              /\ req'[r].pc # "kafkaAwait"
              /\ promises[req[r].awaiting] = "rejected") =>
                 /\ kafkaUnavailable'
                 /\ req'[r].pc \in { "remoteFetch", "localRead", "build" }
                 /\ req'[r].status = 0
                 /\ req'[r].consulted[1] = [adapter |-> "kafka", yielded |-> 0]
      ]_vars

\* after a failed start a later request was answered from the remote stream
\* without Kafka, and no second consumer was started
C10_Witness ==
    /\ kafkaUnavailable
    /\ Len(promises) = 1
    /\ \E r \in Reqs :
         /\ req[r].pc = "done"
         /\ req[r].status = 200
         /\ req[r].source = "remote"
         /\ req[r].consulted[1].adapter = "remote"


\* C11: when the process receives SIGTERM or SIGINT while the Kafka consumer
\* is running, the consumer is eventually stopped (it consumes no more
\* messages and its connection is closed); the end of the process counts
ConsumerStopped == ~ConsumerRunning

C11_ConsumerStoppedOnSignal ==
    (proc.handled # {} /\ ConsumerRunning) ~> ConsumerStopped


\* the step in which request r enters getLiveAnalyticsSnapshot
EntersService(r) ==
    req[r].pc = "idle" /\ req'[r].pc # "idle" /\ req'[r].source # "liveCache"

\* the step in which request r's buildSnapshot returns
Rebuilds(r) == req[r].pc = "build" /\ req'[r].pc = "respond"

\* a request that starts less than 3000 ms after the start of the request that
\* built the cached snapshot returns that snapshot and consults no adapter; a
\* request that starts later is not served from the cache and rebuilds
SmoothedWithinTtl(r) ==
    /\ EntersService(r) =>
         IF cache.snapshot # NoSnapshot /\ clock - cache.loadedAt < 3000
         THEN /\ req'[r].source = "cache"
              /\ req'[r].body = cache.snapshot
              /\ req'[r].consulted = << >>
              /\ req'[r].pc = "respond"
              /\ UNCHANGED <<cache, promises, remoteStreamCache>>
         ELSE /\ req'[r].source # "cache"
              /\ req'[r].pc \in { "kafkaAwait", "remoteFetch", "localRead", "build" }
    /\ Rebuilds(r) =>
         /\ ~(cache.snapshot # NoSnapshot /\ req[r].now - cache.loadedAt < 3000)
         /\ cache' = [loadedAt |-> req[r].now, snapshot |-> req'[r].body]

\* the greatest timestamp among the events of catalog metrics, 0 without any
LatestLiveTimestamp(events) ==
    Max({0} \cup { e.timestamp : e \in { x \in Range(events) : x.metricId \in CatalogIds } })

C13_NeverServedPastTtl ==
    \A i \in Instances :
        cacheLog[i].got.kind = "hit" =>
            cacheLog[i].got.at - cacheLog[i].got.value.writtenAt <= 5000

\* C14: a failure of Redis never fails a cache operation: get resolves (to a
\* miss when redis.get throws or returns unparsable text) and set resolves;
\* the value of a set whose redis.set threw is in the local cache, and a
\* following get within ttlMs returns it.
C14_RedisFailureNeverFails ==
    [][\A i \in Instances :
         /\ cacheLog'[i].got.kind \in { "none", "hit", "miss" }
         /\ cacheLog'[i].set \in { "none", "pending", "resolved" }
         /\ (cacheOps[i].get.pc = "redisGet" /\ cacheOps'[i].get = NoOp
               /\ redis # NoEntry /\ ~redis.raw.ok) => cacheLog'[i].got.kind = "miss"
         /\ (cacheOps[i].set # NoOp /\ cacheOps'[i].set = NoOp
               /\ cacheLog'[i].lastSet.redisFailed) =>
               /\ cacheLog'[i].set = "resolved"
               /\ (cacheLog'[i].lastSet.intact /\ clock - cacheLog'[i].lastSet.at <= 5000) =>
                    /\ memoryCache'[i] # NoEntry
                    /\ memoryCache'[i].value = cacheLog'[i].lastSet.value
         /\ (cacheOps[i].get = NoOp /\ cacheLog'[i].got # cacheLog[i].got
               /\ cacheLog[i].lastSet # NoSet
               /\ cacheLog[i].lastSet.redisFailed /\ cacheLog[i].lastSet.intact
               /\ clock - cacheLog[i].lastSet.at <= 5000) =>
               cacheLog'[i].got = Hit(cacheLog[i].lastSet.value)]_vars

\* a get has just returned the value of a set whose redis.set threw
C14_Witness ==
    \E i \in Instances :
        /\ cacheLog[i].lastSet # NoSet
        /\ cacheLog[i].lastSet.redisFailed
        /\ cacheLog[i].got.kind = "hit"
        /\ cacheLog[i].got.value = cacheLog[i].lastSet.value
        /\ cacheLog[i].got.at > cacheLog[i].lastSet.at
        /\ \E j \in Instances : cacheLog[j].got.kind = "miss" /\ redis # NoEntry /\ ~redis.raw.ok


\* the step in which buildSnapshot of request r returns or throws
BuildEnds(r) == req[r].pc = "build" /\ req'[r].pc # "build"

\* a snapshot with one entry for each catalog metric, in catalog order
CompleteSnapshot(snapshot) == snapshot # NoSnapshot /\ InCatalogOrder(snapshot)

\* the cache changes only in the step that ends a build, to the pair of that
\* build and nothing else of the modules' state changes in that step
CacheWrittenByOneBuild ==
    /\ cache' # cache =>
         \E r \in DOMAIN req :
            /\ BuildEnds(r)
            /\ cache' = [loadedAt |-> req[r].now, snapshot |-> req'[r].body]
    /\ \A r \in DOMAIN req :
         BuildEnds(r) =>
            /\ \A o \in DOMAIN req \ {r} : req'[o] = req[o]
            /\ UNCHANGED <<buffers, remoteStreamCache, liveCache, promises, consumerPromise,
                           kafkaUnavailable>>

\* C15: under any interleaving of concurrent getLiveAnalyticsSnapshot calls
\* that miss the cache every call returns a complete snapshot, and the module
\* cache holds nothing or the (loadedAt, snapshot) pair of the build that
\* completed last, written in one step; the builds change no other state.
C15_ConcurrentBuildsAreSafe ==
    [][/\ CacheWrittenByOneBuild
       /\ \A r \in DOMAIN req :
            BuildEnds(r) =>
               /\ req'[r].pc = "respond"
               /\ CompleteSnapshot(req'[r].body)
               /\ cache'.snapshot = req'[r].body]_vars



\* a number of the model in thousandths
Milli(x) == x.w * 1000 + x.m

Distance(a, b) == IF Milli(a) >= Milli(b) THEN Milli(a) - Milli(b) ELSE Milli(b) - Milli(a)

\* thousandths rounded to the nearest hundredth
ToHundredths(d) == ((d + 5) \div 10) * 10

\* the reference priority evaluation: status, side and breached threshold
Breach(value, t) ==
    IF t = NoGuardrails THEN << "ok", "undefined", NoThreshold >>
    ELSE IF t.upperCritical # NoThreshold /\ Milli(value) >= Milli(t.upperCritical)
    THEN << "critical", "upper", t.upperCritical >>
    ELSE IF t.lowerCritical # NoThreshold /\ Milli(value) <= Milli(t.lowerCritical)
    THEN << "critical", "lower", t.lowerCritical >>
    ELSE IF t.upperWarning # NoThreshold /\ Milli(value) >= Milli(t.upperWarning)
    THEN << "warning", "upper", t.upperWarning >>
    ELSE IF t.lowerWarning # NoThreshold /\ Milli(value) <= Milli(t.lowerWarning)
    THEN << "warning", "lower", t.lowerWarning >>
    ELSE << "ok", "undefined", NoThreshold >>

Configured(t) ==
    IF t = NoGuardrails THEN { }
    ELSE { t.upperWarning, t.upperCritical, t.lowerWarning, t.lowerCritical } \ { NoThreshold }

\* the distance to the nearest configured threshold, 0 when none is configured
NearestDistance(value, t) ==
    IF Configured(t) = { } THEN 0 ELSE Min({ Distance(value, c) : c \in Configured(t) })

\* status, side and threshold follow the priority order; magnitude of a breach
\* as given by breachMagnitude, and the nearest distance when ok
MatchesReference(value, t, anomaly, rounded) ==
    /\ anomaly.status = Breach(value, t)[1]
    /\ anomaly.breachedThreshold = Breach(value, t)[2]
    /\ IF Breach(value, t)[1] # "ok"
       THEN /\ anomaly.thresholdValue = Breach(value, t)[3]
            /\ Milli(anomaly.magnitude) =
                 IF rounded THEN ToHundredths(Distance(value, Breach(value, t)[3]))
                 ELSE Distance(value, Breach(value, t)[3])
       ELSE Milli(anomaly.magnitude) = NearestDistance(value, t)

MillisOf(iso) == iso.day * DAY_MS + iso.h * 3600000 + iso.mi * 60000 + iso.s * 1000 + iso.ms

OldestToNewest(trend) ==
    \A k \in DOMAIN trend :
        k < Len(trend) => MillisOf(trend[k].timestamp) <= MillisOf(trend[k + 1].timestamp)

\* C18: in every metric of every snapshot the service returns, live or
\* synthetic, the trend has at most 10 points and its timestamps never
\* decrease from the first point to the last.
C18_TrendsOldestToNewest ==
    \A r \in DOMAIN req :
        req[r].body # NoSnapshot =>
            \A i \in DOMAIN req[r].body.metrics :
                /\ Len(req[r].body.metrics[i].trend) <= TREND_POINTS
                /\ OldestToNewest(req[r].body.metrics[i].trend)


\* --- buildSnapshot against a reference that does not sort -------------------

\* positions in `events` of the events of one metric
EventsOf(events, id) == { j \in DOMAIN events : events[j].metricId = id }

\* event a comes after event b in time; between equal timestamps the one that
\* arrived later comes after (Array.prototype.sort is stable)
Later(events, a, b) ==
    \/ events[a].timestamp > events[b].timestamp
    \/ events[a].timestamp = events[b].timestamp /\ a > b

\* the last of the positions S in that order
LastIn(events, S) == CHOOSE a \in S : \A b \in S \ {a} : Later(events, a, b)

\* the window of a metric: its events not older than windowSeconds before its latest
WindowOf(events, id, windowSeconds) ==
    { j \in EventsOf(events, id) :
        events[j].timestamp >=
            events[LastIn(events, EventsOf(events, id))].timestamp - windowSeconds * 1000 }

\* the number LIVE_ANALYTICS_WINDOW_SECONDS denotes, 120 when it is not set
ConfiguredWindow ==
    CASE env.windowSeconds = "60" -> 60
      [] env.windowSeconds = "-5" -> -5
      [] OTHER -> 120

BuilderReturned == calc.op = "buildSnapshot" /\ ~calc.built.threw

\* catalog metrics that have events in the call, all with a finite timestamp
LiveFinite ==
    { i \in DOMAIN liveMetricCatalog :
        /\ EventsOf(calc.events, liveMetricCatalog[i].id) # {}
        /\ \A j \in EventsOf(calc.events, liveMetricCatalog[i].id) :
               calc.events[j].timestamp # NaN }

\* delta and direction of entry m, from the window W whose last event is L
DeltaAndDirection(m, W, L) ==
    /\ Milli(m.delta) =
         IF Cardinality(W \cup {L}) >= 2
         THEN ToHundredths(Milli(calc.events[L].value)
                           - Milli(calc.events[LastIn(calc.events, W \ {L})].value))
         ELSE 0
    /\ Cardinality(W) = 1 => (Milli(m.delta) = 0 /\ m.direction = "steady")
    /\ m.direction = (IF Milli(m.delta) = 0 THEN "steady"
                      ELSE IF Milli(m.delta) > 0 THEN "up" ELSE "down")

MostRecent(events, W) ==
    { j \in W : Cardinality({ b \in W : Later(events, b, j) }) < TREND_POINTS }

\* place of position j among the positions T, oldest first
PlaceIn(events, T, j) == 1 + Cardinality({ b \in T : Later(events, j, b) })

\* C19: the trend of a live metric is made of exactly the most recent (at most
\* 10) of its events in [latest - windowSeconds * 1000, latest], latest being
\* its greatest timestamp and windowSeconds the configured window; no older
\* event is in the trend and the latest event always is.
C19_TrendIsTheWindow ==
    BuilderReturned =>
        \A i \in LiveFinite :
            LET S == EventsOf(calc.events, liveMetricCatalog[i].id)
                W == WindowOf(calc.events, liveMetricCatalog[i].id, ConfiguredWindow)
                trend == calc.built.snapshot.metrics[i].trend
            IN  /\ Len(trend) = Cardinality(MostRecent(calc.events, W))
                /\ \A j \in MostRecent(calc.events, W) :
                       /\ PlaceIn(calc.events, MostRecent(calc.events, W), j) \in DOMAIN trend
                       /\ MillisOf(trend[PlaceIn(calc.events, MostRecent(calc.events, W), j)].timestamp)
                            = calc.events[j].timestamp
                       /\ Milli(trend[PlaceIn(calc.events, MostRecent(calc.events, W), j)].value)
                            = ToHundredths(Milli(calc.events[j].value))
                /\ \A k \in DOMAIN trend :
                       MillisOf(trend[k].timestamp)
                           >= calc.events[LastIn(calc.events, S)].timestamp - ConfiguredWindow * 1000
                /\ \E k \in DOMAIN trend :
                       MillisOf(trend[k].timestamp) = calc.events[LastIn(calc.events, S)].timestamp


\* catalog metrics that have events in the call
LiveMetrics ==
    { i \in DOMAIN liveMetricCatalog : EventsOf(calc.events, liveMetricCatalog[i].id) # {} }

AllFinite == \A j \in DOMAIN calc.events : calc.events[j].timestamp # NaN

\* the greatest timestamp of the events of the live metrics
LatestOfAll ==
    Max({ calc.events[j].timestamp :
            j \in UNION { EventsOf(calc.events, liveMetricCatalog[i].id) : i \in LiveMetrics } })

\* the timestamps of the first trend points of the live metrics
TrendStarts ==
    { MillisOf(calc.built.snapshot.metrics[i].trend[1].timestamp) :
        i \in { l \in LiveMetrics : Len(calc.built.snapshot.metrics[l].trend) > 0 } }

\* max(1, round(ms / 1000))
WholeSeconds(ms) == Max({ 1, (ms + 500) \div 1000 })

\* C20: with a live metric, generatedAt is the greatest event timestamp of the
\* live metrics and windowSeconds is max(1, round((latest - earliest) / 1000)),
\* earliest being the least first-trend-point timestamp, whatever the
\* timestamps are; with no live event both are the synthetic snapshot's.
C20_GeneratedAtAndWindow ==
    (BuilderReturned /\ AllFinite) =>
        IF LiveMetrics # {}
        THEN /\ MillisOf(calc.built.snapshot.generatedAt) = LatestOfAll
             /\ TrendStarts # {} =>
                  calc.built.snapshot.windowSeconds = WholeSeconds(LatestOfAll - Min(TrendStarts))
        ELSE /\ MillisOf(calc.built.snapshot.generatedAt) = calc.now
             /\ calc.built.snapshot.windowSeconds = ConfiguredWindow


\* --- composeNarrative against a reference that does not sort ----------------

Composed == calc.op = "composeNarrative"

\* (1000 if critical, 500 if warning, else 0) + magnitude + |delta|
ScoreOf(m) ==
    NumAdd(NumAdd(CASE m.anomaly.status = "critical" -> Whole(1000)
                    [] m.anomaly.status = "warning" -> Whole(500)
                    [] OTHER -> Zero,
                  m.anomaly.magnitude),
           IF NumLt(m.delta, Zero) THEN NumSub(Zero, m.delta) ELSE m.delta)

\* metric a ranks before metric b: a greater score, or the same and earlier in the input
Outranks(metrics, a, b) ==
    \/ NumGt(ScoreOf(metrics[a]), ScoreOf(metrics[b]))
    \/ ScoreOf(metrics[a]) = ScoreOf(metrics[b]) /\ a < b

\* the first of the positions S in the ranking
TopOf(metrics, S) == CHOOSE a \in S : \A b \in S \ {a} : Outranks(metrics, a, b)

OtherIds(metrics) ==
    { j \in DOMAIN metrics : metrics[j].id # metrics[TopOf(metrics, DOMAIN metrics)].id }

\* C21: composeNarrative describes the metric with the greatest severity score
\* (the earliest in the input among equals) and, joined by "while", the
\* highest-ranked metric with another id; with one distinct metric only the
\* first phrase; with no metric the fixed sentence.
C21_NarrativeRanksBySeverity ==
    Composed =>
        IF Len(calc.metrics) = 0
        THEN calc.narrative = << "Live telemetry steady across monitored signals." >>
        ELSE IF OtherIds(calc.metrics) = {}
        THEN calc.narrative =
                 << "Live telemetry", buildPhrase(calc.metrics[TopOf(calc.metrics, DOMAIN calc.metrics)]) >>
        ELSE calc.narrative =
                 << "Live telemetry", buildPhrase(calc.metrics[TopOf(calc.metrics, DOMAIN calc.metrics)]),
                    "while", buildPhrase(calc.metrics[TopOf(calc.metrics, OtherIds(calc.metrics))]) >>

\* a healthy metric given twice, then a critical one of another id: the
\* critical one is described first, the healthy one second
C21_Witness ==
    /\ Composed
    /\ Len(calc.metrics) = 3
    /\ calc.metrics[1].id = calc.metrics[2].id
    /\ calc.metrics[1].anomaly.status = "ok"
    /\ calc.metrics[3].anomaly.status = "critical"
    /\ Len(calc.narrative) = 4
    /\ calc.narrative[2].focus = calc.metrics[3].id
    /\ calc.narrative[4].focus = calc.metrics[1].id


HasStatus(metrics, status) == \E j \in DOMAIN metrics : metrics[j].anomaly.status = status

\* C27: with a critical metric in the snapshot the first phrase of the
\* narrative describes a critical metric ("triggered"); with none critical but
\* one warning it describes a warning metric ("nudged").
C27_CriticalNeverOutranked ==
    (Composed /\ Len(calc.metrics) > 0) =>
        /\ HasStatus(calc.metrics, "critical") => calc.narrative[2].verb = "triggered"
        /\ (~HasStatus(calc.metrics, "critical") /\ HasStatus(calc.metrics, "warning"))
             => calc.narrative[2].verb = "nudged"


Generated == calc.op = "generateSyntheticSnapshot"

\* the tick of a clock reading: floor(nowMillis / 15000)
TickOf(nowMillis) == nowMillis \div 15000

\* what the claim lists of a metric: value, delta, direction, trend points, anomaly
OutputOf(m) == << m.value, m.delta, m.direction, m.trend, m.anomaly >>

\* C22: two calls of the synthetic generator whose clock readings fall in the
\* same tick give, for every metric, the same value, delta, direction, trend
\* points and anomaly.
C22_SyntheticDeterministicInTick ==
    (Generated /\ TickOf(calc.issuedAt[1]) = TickOf(calc.issuedAt[2])) =>
        \A i \in DOMAIN liveMetricCatalog :
            OutputOf(calc.snapshots[1].metrics[i]) = OutputOf(calc.snapshots[2].metrics[i])

\* the place in the trend of the point with the most recent timestamp
NewestPoint(trend) ==
    CHOOSE k \in DOMAIN trend :
        \A j \in DOMAIN trend : MillisOf(trend[j].timestamp) <= MillisOf(trend[k].timestamp)

\* the place of the point one tick before the newest
PreviousPoint(trend) ==
    CHOOSE k \in DOMAIN trend :
        MillisOf(trend[k].timestamp) = MillisOf(trend[NewestPoint(trend)].timestamp) - 15000

\* C26: the value of a synthetic metric is the value of the trend point with
\* the most recent timestamp (the generator's value at the current tick), and
\* delta is that value minus the value of the point one tick earlier, rounded
\* to 2 decimals.
C26_SyntheticValueIsNewest ==
    Generated =>
        \A i \in DOMAIN liveMetricCatalog :
            LET m == calc.snapshots[1].metrics[i]
            IN  /\ m.value = m.trend[NewestPoint(m.trend)].value
                /\ m.delta = Round2(NumSub(m.trend[NewestPoint(m.trend)].value,
                                           m.trend[PreviousPoint(m.trend)].value))


\* --- the message handler against the list of objects a message carries ------

RECURSIVE ObjectsOf(_), ObjectsOfItems(_), ObjectsOfText(_)

\* the objects a JSON value holds, in order: an array holds those of its
\* items, a string those of its lines
ObjectsOf(json) ==
    CASE json.type = "null" -> << >>
      [] json.type = "array" -> ObjectsOfItems(json.items)
      [] json.type = "string" -> ObjectsOfText(json.fragments)
      [] OTHER -> << json.raw >>

ObjectsOfItems(items) ==
    IF Len(items) = 0 THEN << >> ELSE ObjectsOf(Head(items)) \o ObjectsOfItems(Tail(items))

\* the objects of the lines that parse as JSON; the others are skipped
ObjectsOfText(fragments) ==
    IF Len(fragments) = 0 THEN << >>
    ELSE (IF Head(fragments).ok THEN ObjectsOf(Head(fragments).json) ELSE << >>)
             \o ObjectsOfText(Tail(fragments))

RECURSIVE IngestAll(_, _, _)
\* every object normalized and, when valid, ingested, one after the other
IngestAll(map, raws, max) ==
    IF Len(raws) = 0 THEN map
    ELSE IngestAll(addRawEvent(map, Head(raws), max), Tail(raws), max)

Handled == calc.op = "processKafkaMessage"

DecodedNonNull == calc.registry.kind = "resolves" /\ calc.registry.value # JsonNull

IssuesFetch(r) == req[r].pc # "remoteFetch" /\ req'[r].pc = "remoteFetch"

\* request q holds the events of a fetch of its own, which it began at req[q].loadNow
HoldsFetched(q) == req[q].source = "remote" /\ req[q].loadNow > 0

\* C24: no build sends an HTTP request less than STREAM_POLL_MS after the
\* start of a remote fetch that has returned events; STREAM_POLL_MS is at
\* least 2000 ms and 15000 ms by default; a fetch that fails or yields no event
\* leaves the remote cache as it is and the build reads the local file.
C24_RemotePolling ==
    [][/\ STREAM_POLL_MS >= 2000
       /\ env.pollSeconds = Unset => STREAM_POLL_MS = 15000
       /\ \A r, q \in DOMAIN req :
              (IssuesFetch(r) /\ HoldsFetched(q)) => clock - req[q].loadNow >= STREAM_POLL_MS
       /\ \A r \in DOMAIN req :
              (req[r].pc = "remoteFetch" /\ req'[r].pc # "remoteFetch"
                   /\ req'[r].source # "remote")
                  => (req'[r].pc = "localRead" /\ remoteStreamCache' = remoteStreamCache)]_vars

\* C25: a request to a moderation endpoint (PATCH /signals/:id/status, GET or
\* POST /signals/:id/assignments, GET /shadow-queue, POST
\* /shadow-queue/:id/decision) whose user was attached with a role other than
\* colleague is answered 403 without its handler having run; with the role
\* taken from the header, a missing, merchant or unrecognized role header is
\* the role merchant; a request refused by attachRequestUser itself (401) has
\* no handler either; and the signal, the assignments, the audit rows and the
\* queue items change only in the step of a moderation handler whose user is
\* a colleague.
PartnerRows(p) == << p.signal, p.assignments, p.audits, p.queue >>

RoleFromHeader(call) == env.idp # "true" \/ call.headers.token = Unset

C25_ModerationNeedsColleague ==
    [][ /\ \A c \in Callers :
            LET call == partner'.calls[c]
            IN  /\ (call.pc # "idle" /\ call.endpoint \in ModerationEndpoints
                      /\ call.user # NoUser /\ call.user.role # "colleague")
                   => (call.pc = "done" /\ call.status = 403 /\ ~call.handled)
                /\ (call.pc # "idle" /\ call.user # NoUser /\ RoleFromHeader(call)
                      /\ call.headers.role \in { Unset, "merchant", "admin" })
                   => call.user.role = "merchant"
                /\ (call.pc # "idle" /\ call.user = NoUser)
                   => (call.pc = "done" /\ call.status = 401 /\ ~call.handled)
        /\ PartnerRows(partner') # PartnerRows(partner)
           => \E c \in Callers :
                  /\ partner.calls[c].pc = "query"
                  /\ partner'.calls[c].pc = "done"
                  /\ partner.calls[c].handled
                  /\ partner.calls[c].endpoint \in ModerationEndpoints
                  /\ partner.calls[c].user.role = "colleague" ]_vars

\* a decision sent without a role header is answered 403 while the item is
\* still pending, after a colleague's status change went through
C25_Witness ==
    /\ partner.calls["c1"].pc = "done"
    /\ partner.calls["c1"].endpoint = PostDecision
    /\ partner.calls["c1"].target = "q1"
    /\ partner.calls["c1"].headers.role = Unset
    /\ partner.calls["c1"].status = 403
    /\ partner.queue["q1"] = PendingRow
    /\ Len(partner.audits) = 1
    /\ partner.signal.status = "approved"

\* C30: a shadow-queue item changes only while it is pending, in the step of a
\* decision answered 200, to acknowledged or escalated as the request says,
\* with the deciding reviewer and the time of the step; a decision on an item
\* that is decided or does not exist, or with the queue disabled, is answered
\* 404 and changes no item; a decision on a pending item of the enabled queue
\* is answered 200; and no two decisions on one item are both answered 200.
DecisionOf(call) ==
    [status |-> call.body, decision_at |-> clock, decision_by_id |-> call.user.id]

C30_DecidedAtMostOnce ==
    /\ [](\A c \in Callers : \A d \in Callers \ { c } :
            (/\ partner.calls[c].pc = "done" /\ partner.calls[d].pc = "done"
             /\ partner.calls[c].endpoint = PostDecision
             /\ partner.calls[d].endpoint = PostDecision
             /\ partner.calls[c].target = partner.calls[d].target)
            => ~(partner.calls[c].status = 200 /\ partner.calls[d].status = 200))
    /\ [][ /\ DOMAIN partner'.queue = DOMAIN partner.queue
           /\ \A q \in DOMAIN partner.queue :
                partner'.queue[q] # partner.queue[q]
                => /\ partner.queue[q].status = "pending"
                   /\ env.shadowQueue # "false"
                   /\ \E c \in Callers :
                          /\ partner.calls[c].pc = "query"
                          /\ partner.calls[c].endpoint = PostDecision
                          /\ partner.calls[c].target = q
                          /\ partner.calls[c].body \in { "acknowledged", "escalated" }
                          /\ partner'.calls[c].pc = "done"
                          /\ partner'.calls[c].status = 200
                          /\ partner'.queue[q] = DecisionOf(partner.calls[c])
           /\ \A c \in Callers :
                (/\ partner.calls[c].pc # "done" /\ partner'.calls[c].pc = "done"
                 /\ partner'.calls[c].endpoint = PostDecision
                 /\ partner'.calls[c].user.role = "colleague")
                => LET call == partner'.calls[c]
                       pending == /\ env.shadowQueue # "false"
                                  /\ call.target \in DOMAIN partner.queue
                                  /\ partner.queue[call.target].status = "pending"
                   IN  /\ call.status = IF pending THEN 200 ELSE 404
                       /\ call.status = 404 => partner'.queue = partner.queue ]_vars

\* both colleagues have decided "q1": the first was answered 200 and the item
\* carries that decision, the second was answered 404
C30_Witness ==
    /\ partner.calls["c1"].pc = "done" /\ partner.calls["c2"].pc = "done"
    /\ partner.calls["c1"].target = "q1" /\ partner.calls["c2"].target = "q1"
    /\ partner.calls["c1"].body = "acknowledged" /\ partner.calls["c2"].body = "escalated"
    /\ partner.calls["c1"].status = 404 /\ partner.calls["c2"].status = 200
    /\ partner.queue["q1"] = [status |-> "escalated", decision_at |-> clock,
                              decision_by_id |-> "c2"]

\* C28: the normalizer treats a timestamp variant that evaluates to 0 (the
\* number 0, the date string of the epoch) as absent: the result is the result
\* for the same object without that field, so the next variant in the order
\* timestamp, timestampMs, timestamp_ms, eventTime is used, and an object whose
\* variants are all missing or 0 is rejected; a `timestamp` that is a non-zero
\* finite number, negative ones included, is the timestamp of the event.
TimestampVariants == << "timestamp", "timestampMs", "timestamp_ms", "eventTime" >>

EvaluatesToZero(v) == v = NumberJs(0) \/ v = StringJs("1970-01-01T00:00:00.000Z")

NonZeroNumber(v) == v.t = "number" /\ v.n # NaN /\ v.n # 0

\* the first variant after position i that is a non-zero number, when every
\* variant up to it is missing or evaluates to 0
NextVariant(raw, i) ==
    { j \in (i + 1)..Len(TimestampVariants) :
        /\ NonZeroNumber(raw[TimestampVariants[j]])
        /\ \A k \in 1..(j - 1) : \/ raw[TimestampVariants[k]] = Undefined
                                \/ EvaluatesToZero(raw[TimestampVariants[k]]) }

\* the input has an id of the catalog and a finite value
WellFormedBesidesTimestamp(raw) ==
    /\ raw.kind = "object"
    /\ raw.metricId = StringJs(M1)
    /\ raw.value = NumberV(Whole(100))

C28_ZeroTimestampIsAbsent ==
    WellFormedBesidesTimestamp(norm.input)
    => /\ \A i \in DOMAIN TimestampVariants :
            EvaluatesToZero(norm.input[TimestampVariants[i]])
            => /\ norm.output
                  = normalizeRawEvent([norm.input EXCEPT ![TimestampVariants[i]] = Undefined])
               /\ \A j \in NextVariant(norm.input, i) :
                    norm.output = StreamEvent(M1, norm.input[TimestampVariants[j]].n, Whole(100))
       /\ (\A i \in DOMAIN TimestampVariants :
              \/ norm.input[TimestampVariants[i]] = Undefined
              \/ EvaluatesToZero(norm.input[TimestampVariants[i]]))
          => norm.output = NullEvent
       /\ NonZeroNumber(norm.input.timestamp)
          => norm.output = StreamEvent(M1, norm.input.timestamp.n, Whole(100))

\* timestamp is 0 and timestampMs is 0, timestamp_ms is the first that counts
C28_Witness ==
    /\ WellFormedBesidesTimestamp(norm.input)
    /\ norm.input.timestamp = NumberJs(0)
    /\ norm.input.timestampMs = NumberJs(0)
    /\ norm.input.timestamp_ms = StringJs("1970-01-01T00:00:16.000Z")
    /\ norm.input.eventTime = StringJs("1970-01-01T00:00:00.000Z")
    /\ norm.output = StreamEvent(M1, 16000, Whole(100))

\* C29: outside the test environment startConsumer is invoked at most once in
\* the life of the process, whatever the interleaving of the concurrent calls
\* of getKafkaStreamEvents: every caller that waits, waits for the promise of
\* that one invocation; after it has fulfilled it stays the consumerPromise
\* that later callers reuse; and after it has failed and a caller has seen the
\* failure no invocation follows.
C29_ConsumerStartedAtMostOnce ==
    /\ [](/\ Len(promises) <= 1
          /\ \A r \in DOMAIN req :
                req[r].pc = "kafkaAwait" => (Len(promises) = 1 /\ req[r].awaiting = 1)
          /\ (Len(promises) = 1 /\ promises[1] = "fulfilled") => consumerPromise = 1
          /\ kafkaUnavailable => (promises = << "rejected" >> /\ consumerPromise = 0))
    /\ [][Len(promises') > Len(promises)
            => (/\ promises = << >> /\ consumerPromise = 0 /\ ~kafkaUnavailable
                /\ \E r \in DOMAIN req : req[r].pc = "idle" /\ req'[r].pc = "kafkaAwait")]_vars

\* two callers wait for the one start, which has failed; neither has resumed
C29_Witness ==
    /\ promises = << "rejected" >>
    /\ \A r \in ConcurrentReqs : req[r].pc = "kafkaAwait" /\ req[r].awaiting = 1
    /\ ~kafkaUnavailable

=============================================================================
